---- MODULE Spec2Model ----
(***************************************************************************)
(* A model of the probate scraper's server side: one run of a route       *)
(* handler (POST /api/search or POST /api/process-batch), the gate bypass *)
(* it performs through connectBrowser, and the automation channel it      *)
(* drives.  Every await of the source is a step of the model; the channel *)
(* (a third-party site behind a remote browser) answers each step with    *)
(* any outcome it can produce.                                            *)
(***************************************************************************)
EXTENDS Integers, Sequences, FiniteSets, TLC

VARIABLES
  route,         \* which handler runs: "search" or "batch"
  stub,          \* the channel served: "live", "happyPath" or "stuckOnChallenge"
  pc,            \* position of the run (the await it is suspended at)
  url,           \* page.url()
  startUrl,      \* url of the page connectBrowser picked up (context.pages()[0])
  chanOpen,      \* the automation channel (browser connection) is open
  routeBrowser,  \* the route's local `browser` is assigned
  captchaCount,  \* connectBrowser's captchaCount
  solving,       \* Browserless.solveCaptcha commands in flight
  respFilled,    \* textarea[name="h-captcha-response"] is non-empty
  cfElapsed,     \* Date.now() - start while waitForCloudflare runs
  clock,         \* ms since the challenge wait began, while it is awaited
  intervalOn,    \* pollInterval is set and not cleared
  duePoll,       \* the interval callback is due at the current clock
  timeoutArmed,  \* the 25 s timer is set and has not fired
  inflight,      \* poll callbacks suspended in page.evaluate
  done,          \* the `done` flag of the challenge wait
  captchaSolved, \* value the wait resolved with: "pending", "true", "false"
  resolveCalls,  \* number of calls of resolve()
  pollsAfter,    \* poll callbacks started after the wait resolved
  startBtnSeen,  \* Welcome step: "unqueried", "present", "absent"
  waited,        \* the challenge wait was entered
  btnClicked,    \* the enabled File Search control was clicked
  navIssued,     \* navigations connectBrowser triggered (goto, clicks)
  leftSearch,    \* a navigation was triggered while the page was on the search page
  cbAttempts,    \* calls of connectBrowser in this run
  cbResult,      \* "none", "returned", "thrown"
  err,           \* the error in flight or surfaced
  item,          \* index of the chunk / file being worked on
  nItems,        \* number of chunks / files of the request
  attempt,       \* withRetry's attempt
  opsIssued,     \* search / lookup / document operations issued on the session
  opsGated,      \* operations issued while connectBrowser had not returned
  itemErrors,    \* batch route: files recorded as error Outcomes
  httpStatus,    \* 0 while running, then 200, 400 or 500
  \* -- the file loop of POST /api/process-batch --
  bpc,           \* position of the batch run
  nFiles,        \* files.length of the request
  bi,            \* index of `file` in files (1-based)
  results,       \* the route's results array
  batchStats,    \* the route's batchStats
  bAttempt,      \* withRetry's attempt around lookupFile / downloadAndParsePDF
  bErr,          \* message of the error in flight
  bPdf,          \* how the current attempt of downloadAndParsePDF left its try block
  tabOpen,       \* tabs opened by openProbatePetitionPDF and not closed
  pdfOpen,       \* pdfPages opened by downloadAndParsePDF and not closed
  bChanOpen,     \* the batch run's browser connection is open
  bDelayed,      \* delay() of the loop's end has run since the last Outcome
  bNoDelay,      \* a file was started with no delay() after the previous Outcome
  cancelled,     \* the run's cancellation signal is raised
  bAfterCancel,  \* a file was started after the signal was raised
  bStatus,       \* HTTP status of the batch response, 0 while running
  \* -- one call of withRetry(fn, label) --
  rpc,           \* position of the call
  rLabel,        \* the label argument
  rAttempt,      \* the loop variable attempt
  rHist,         \* what each invocation of fn did, in order
  rResult,       \* the value returned or the message of the Error thrown
  rWaits,        \* the delays waited between attempts, in ms
  \* -- handleRunScrape of ScrapeForm --
  fpc,           \* position of the handler
  phase,         \* the phase state of the form
  totalCount,    \* the number of files of the search response
  fi,            \* index of the batch of the loop
  allResults,    \* the Outcomes collected so far
  runningStats,  \* processed, included, skipped, errors
  aborted,       \* abortRef.current.signal.aborted
  sent,          \* the groups sent to /api/process-batch, in order
  sentAfterAbort, \* a request was issued after the signal was raised
  \* -- one call of splitDateRange(fromStr, toStr) --
  dpc,           \* position of the call
  dFrom,         \* fromStr, as the numbers of its three fields
  dTo,           \* toStr, likewise
  currentStart,  \* the Date the loop stands at
  chunks,        \* the chunks pushed so far
  dSpans,        \* the Dates each chunk was formatted from
  \* -- POST /api/search with searchAndCollectFiles --
  spc,           \* position of the search run
  sN,            \* dateChunks.length
  sc,            \* index of the chunk of the loop
  sAttempt,      \* withRetry's attempt on the chunk
  sAll,          \* the route's allFiles
  sLocal,        \* allFiles of the running call of searchAndCollectFiles
  sShown,        \* the page the browser shows after the last navigation
  sClass,        \* how the running or last call classified its result page
  sVisited,      \* the rows of each page the call extracted, in order
  sClicks,       \* next-page controls the call activated
  sSearched,     \* the chunk of every call of searchAndCollectFiles, in order
  sErr,          \* message of the error in flight
  sResp,         \* the response of the route
  ppc,           \* position of the call of downloadAndParsePDF
  pTried,        \* the retrieval strategies the call tried, in order
  pdfDirectUrl,  \* what the evaluate of the viewer page returned
  pBuf,          \* pdfBuffer of downloadAndParsePDF
  pResult,       \* what the call returned or threw
  pOpen,         \* pdfPage is open
  iSeen,         \* the responses the handler of tryInterceptPDF observed, in order
  iPending,      \* the observed responses whose body() is awaited
  iBuf,          \* pdfBuffer of tryInterceptPDF
  lpc,           \* position of the file loop around lookupFile
  lN,            \* files.length of the request
  li,            \* 1-based position of the loop in files
  lAttempt,      \* attempt of withRetry around lookupFile
  lPage,         \* the page the browser shows after the file search
  lRet,          \* what the last call of lookupFile returned
  lResults,      \* results of the route
  lStats,        \* batchStats of the route
  lErr,          \* message of the error in flight
  apc,           \* position of the call of parseAmount
  aStr,          \* str of parseAmount, a sequence of characters
  aOut,          \* what parseAmount returned
  tpc,           \* position of parseProbateText and of the route after it
  tk,            \* the extraction step parseProbateText is at
  tRes,          \* result of parseProbateText
  tAnchor,       \* some pattern found its anchor phrase in the text
  tRan,          \* the extraction steps that were evaluated
  tThrew,        \* the extraction step that threw, 0 if none
  tMin,          \* minEstateValue of the request
  tStatus,       \* status the route gives the parsed filing
  errorLog,      \* the entries of the diagnostic log, by their serial numbers
  nLogged,       \* calls of logError so far
  gCopy,         \* the array the last getErrors returned, while the caller holds it
  gHeld,         \* the caller holds an array that getErrors returned
  gAlias,        \* that array is errorLog itself
  lastOp         \* the last operation on the log

runState == << route, stub, pc, url, startUrl, chanOpen, routeBrowser, captchaCount,
               solving, respFilled, cfElapsed, clock, intervalOn, duePoll,
               timeoutArmed, inflight, done, captchaSolved, resolveCalls,
               pollsAfter, startBtnSeen, waited, btnClicked, navIssued,
               leftSearch, cbAttempts, cbResult, err, item, nItems, attempt,
               opsIssued, opsGated, itemErrors, httpStatus >>

batchState == << bpc, nFiles, bi, results, batchStats, bAttempt, bErr, bPdf,
                 tabOpen, pdfOpen,
                 bChanOpen, bDelayed, bNoDelay, cancelled, bAfterCancel, bStatus >>

retryState == << rpc, rLabel, rAttempt, rHist, rResult, rWaits >>

formState == << fpc, phase, totalCount, fi, allResults, runningStats, aborted, sent,
                sentAfterAbort >>

dateState == << dpc, dFrom, dTo, currentStart, chunks, dSpans >>

searchState == << spc, sN, sc, sAttempt, sAll, sLocal, sShown, sClass, sVisited,
                  sClicks, sSearched, sErr, sResp >>

pdfState == << ppc, pTried, pdfDirectUrl, pBuf, pResult, pOpen, iSeen, iPending, iBuf >>

\* the state of the pure functions and of the helpers of the search
lookState == << lpc, lN, li, lAttempt, lPage, lRet, lResults, lStats, lErr >>

\* the state of the file lookup, of the parser and of the diagnostic log
amountState == << apc, aStr, aOut >>

parseState == << tpc, tk, tRes, tAnchor, tRan, tThrew, tMin, tStatus >>

logState == << errorLog, nLogged, gCopy, gHeld, gAlias, lastOp >>

lateState == << lookState, amountState, parseState, logState >>

restState == << dateState, searchState, pdfState, lateState >>

\* the state of the other specifications, which a run of Spec leaves alone
extState == << batchState, retryState, formState, restState >>

\* the state a run of the batch route leaves alone
notBatch == << runState, retryState, formState, restState >>

vars == << runState, extState >>

(***************************************************************************)
(* Bounds of the model and constants of the program.                      *)
(***************************************************************************)
MaxCaptcha == 2             \* challenge-detected notifications per run
MaxInflight == 2            \* poll callbacks suspended at once
MaxItems == 2               \* chunks / files per request

MAX_RETRIES == 2
ChallengeTimeoutMs == 25000
PollIntervalMs == 1000
CfTimeoutMs == 25000
CfSleepMs == 2000

Routes == {"search", "batch"}
Stubs == {"live", "happyPath", "stuckOnChallenge"}

NoErr == [kind |-> "none", url |-> "none", count |-> 0]

Err(k) == [kind |-> k, url |-> "none", count |-> 0]

(***************************************************************************)
(* Predicates of connectBrowser on the page URL.                          *)
(***************************************************************************)
\* currentUrl.includes('Welcome')
OnWelcome(u) == u = "Welcome"

\* variants of ChallengeShown: the wrong page name, and no test at all
ChallengeShown_WrongPage(u) == u = "Welcome"

ChallengeShown_Always(u) == TRUE

\* currentUrl.includes('Authenticate')
ChallengeShown(u) == u = "Authenticate"

\* variant of IsGatePage that forgets the AuthenticatePage
IsGatePage_WelcomeOnly(u) == u = "Welcome"

\* finalUrl.includes('Welcome') || finalUrl.includes('Authenticate')
IsGatePage(u) == u = "Welcome" \/ u = "Authenticate"

\* variant of GateError whose message leaves out the count
GateError_NoCount(u, n) == [kind |-> "GateBypassFailed", url |-> u, count |-> 0]

\* `Gate bypass failed — still on ${finalUrl}. CAPTCHAs detected: ${captchaCount}. ...`
GateError(u, n) == [kind |-> "GateBypassFailed", url |-> u, count |-> n]

\* variant of PollResolves without the test of `done`
PollResolves_NoDoneCheck(hasResponse, d) == hasResponse

\* if (hasResponse && !done)
PollResolves(hasResponse, d) == hasResponse /\ ~d

\* if (!done)
TimeoutResolves(d) == ~d

(***************************************************************************)
(* What the channel can answer at each step.  The live channel answers    *)
(* anything; the two stubs are the canned channels of the end-to-end      *)
(* scenarios: Welcome -> Challenge -> search page, and a page that never  *)
(* leaves the Challenge page.                                             *)
(***************************************************************************)
KeyConfigured == IF stub = "live" THEN BOOLEAN ELSE {TRUE}

ConnectOutcomes == IF stub = "live" THEN BOOLEAN ELSE {TRUE}

GotoOutcomes ==
  CASE stub = "live" -> {"Welcome", "Authenticate", "FileSearch", "timeout"}
    [] stub = "happyPath" -> {"Welcome"}
    [] stub = "stuckOnChallenge" -> {"Welcome", "Authenticate"}

CfIndicators == IF stub = "live" THEN BOOLEAN ELSE {FALSE}

StartBtnFound == IF stub = "live" THEN BOOLEAN ELSE {TRUE}

StartNavOutcomes ==
  IF stub = "live" THEN {"Authenticate", "FileSearch", "Welcome", "timeout"}
  ELSE {"Authenticate"}

SolveOutcomes == IF stub = "happyPath" THEN {TRUE} ELSE BOOLEAN

EvaluateThrows == IF stub = "live" THEN BOOLEAN ELSE {FALSE}

FileSearchBtnEnabled == IF stub = "happyPath" THEN {TRUE} ELSE BOOLEAN

ClickNavOutcomes ==
  CASE stub = "live" -> {"FileSearch", "Authenticate", "timeout"}
    [] stub = "happyPath" -> {"FileSearch"}
    [] stub = "stuckOnChallenge" -> {"Authenticate", "timeout"}

OpOutcomes == BOOLEAN

\* no batch run is being looked at
BatchIdle ==
  /\ bpc = "idle"
  /\ nFiles = 0
  /\ bi = 1
  /\ results = << >>
  /\ batchStats = [included |-> 0, skipped |-> 0, errors |-> 0]
  /\ bAttempt = 1
  /\ bErr = "none"
  /\ bPdf = "none"
  /\ tabOpen = 0
  /\ pdfOpen = 0
  /\ bChanOpen = FALSE
  /\ bDelayed = FALSE
  /\ bNoDelay = FALSE
  /\ cancelled = FALSE
  /\ bAfterCancel = FALSE
  /\ bStatus = 0

\* no call of splitDateRange is being looked at
DateIdle ==
  /\ dpc = "idle"
  /\ dFrom = << 1, 1, 2027 >>
  /\ dTo = << 1, 1, 2027 >>
  /\ currentStart = [y |-> 2027, m |-> 0, d |-> 1]
  /\ chunks = << >>
  /\ dSpans = << >>

\* no page is shown
NoPage ==
  [says |-> {}, rows |-> << >>, parsed |-> FALSE, endIdx |-> 0, total |-> 0,
   link |-> FALSE]

\* no response yet
NoResp ==
  [status |-> 0, hasFiles |-> FALSE, files |-> << >>, totalCount |-> 0,
   error |-> "none"]

\* no run of the search route is being looked at
SearchIdle ==
  /\ spc = "idle"
  /\ sN = 0
  /\ sc = 1
  /\ sAttempt = 1
  /\ sAll = << >>
  /\ sLocal = << >>
  /\ sShown = NoPage
  /\ sClass = "none"
  /\ sVisited = << >>
  /\ sClicks = 0
  /\ sSearched = << >>
  /\ sErr = "none"
  /\ sResp = NoResp

\* no buffer: null or undefined
NullBuf == [of |-> 0, len |-> 0]

\* nothing returned or thrown yet
NoResult == [kind |-> "none", of |-> 0, msg |-> "none"]

\* no call of downloadAndParsePDF is being looked at
PdfIdle ==
  /\ ppc = "idle"
  /\ pTried = << >>
  /\ pdfDirectUrl = "unset"
  /\ pBuf = NullBuf
  /\ pResult = NoResult
  /\ pOpen = FALSE
  /\ iSeen = << >>
  /\ iPending = {}
  /\ iBuf = NullBuf

\* no page is shown to lookupFile
NoFilePage ==
  [history |-> FALSE, parties |-> << >>, metadata |-> {}, link |-> "absent"]

\* lookupFile has not returned
NoRet ==
  [returned |-> FALSE, parties |-> << >>, metadata |-> {}, pdfUrl |-> "null"]

\* no file loop is being looked at
LookIdle ==
  /\ lpc = "idle"
  /\ lN = 0
  /\ li = 1
  /\ lAttempt = 1
  /\ lPage = NoFilePage
  /\ lRet = NoRet
  /\ lResults = << >>
  /\ lStats = [included |-> 0, skipped |-> 0, errors |-> 0]
  /\ lErr = "none"

\* a number: units / 10^scale, without trailing zeros after the point; NaN
Num(u, k) == [nan |-> FALSE, units |-> u, scale |-> k]
NaN == [nan |-> TRUE, units |-> 0, scale |-> 0]

\* no call of parseAmount is being looked at
AmountIdle ==
  /\ apc = "idle"
  /\ aStr = << >>
  /\ aOut = NaN

\* null, and a value that is not null
Null == << >>
Some(v) == << v >>

\* const result = { decedentName: null, ..., parseErrors: [] }
NewResult ==
  [decedentName |-> Null, decedentAddress |-> Null, dateOfDeath |-> Null,
   placeOfDeath |-> Null, executorName |-> Null, executorAddress |-> Null,
   estateValueLower |-> Null, estateValueUpper |-> Null,
   personalProperty |-> Null, improvedRealProperty |-> Null,
   unimprovedRealProperty |-> Null, parseErrors |-> << >>]

\* no call of parseProbateText is being looked at
ParseIdle ==
  /\ tpc = "idle"
  /\ tk = 1
  /\ tRes = NewResult
  /\ tAnchor = FALSE
  /\ tRan = {}
  /\ tThrew = 0
  /\ tMin = 0
  /\ tStatus = "none"

\* the diagnostic log is not being looked at
LogIdle ==
  /\ errorLog = << >>
  /\ nLogged = 0
  /\ gCopy = << >>
  /\ gHeld = FALSE
  /\ gAlias = FALSE
  /\ lastOp = "idle"

LateIdle == LookIdle /\ AmountIdle /\ ParseIdle /\ LogIdle

RestIdle == DateIdle /\ SearchIdle /\ PdfIdle /\ LateIdle

\* no call of withRetry is being looked at
RetryIdle ==
  /\ rpc = "idle"
  /\ rLabel = "operation"
  /\ rAttempt = 1
  /\ rHist = << >>
  /\ rResult = "none"
  /\ rWaits = << >>

\* no run of the form is being looked at
FormIdle ==
  /\ fpc = "idle"
  /\ phase = "idle"
  /\ totalCount = 0
  /\ fi = 1
  /\ allResults = << >>
  /\ runningStats = [processed |-> 0, included |-> 0, skipped |-> 0, errors |-> 0]
  /\ aborted = FALSE
  /\ sent = << >>
  /\ sentAfterAbort = FALSE

(***************************************************************************)
(* Init: the request has arrived; nothing is connected.                   *)
(***************************************************************************)
Init ==
  /\ route \in Routes
  /\ stub \in Stubs
  /\ startUrl \in {"blank", "FileSearch"}
  /\ nItems \in 1..MaxItems
  /\ pc = "req"
  /\ url = "none"
  /\ chanOpen = FALSE
  /\ routeBrowser = FALSE
  /\ captchaCount = 0
  /\ solving = 0
  /\ respFilled = FALSE
  /\ cfElapsed = 0
  /\ clock = 0
  /\ intervalOn = FALSE
  /\ duePoll = FALSE
  /\ timeoutArmed = FALSE
  /\ inflight = 0
  /\ done = FALSE
  /\ captchaSolved = "pending"
  /\ resolveCalls = 0
  /\ pollsAfter = FALSE
  /\ startBtnSeen = "unqueried"
  /\ waited = FALSE
  /\ btnClicked = FALSE
  /\ navIssued = 0
  /\ leftSearch = FALSE
  /\ cbAttempts = 0
  /\ cbResult = "none"
  /\ err = NoErr
  /\ item = 1
  /\ attempt = 1
  /\ opsIssued = 0
  /\ opsGated = FALSE
  /\ itemErrors = 0
  /\ httpStatus = 0
  /\ BatchIdle
  /\ RetryIdle
  /\ FormIdle
  /\ RestIdle

(***************************************************************************)
(* Groups of variables an action leaves alone.                            *)
(***************************************************************************)
runVars == << route, stub, startUrl, nItems >>
waitVars == << clock, intervalOn, duePoll, timeoutArmed, inflight, done,
               captchaSolved, resolveCalls, pollsAfter >>
captchaVars == << captchaCount, solving >>
gateVars == << startBtnSeen, waited, btnClicked >>
navVars == << navIssued, leftSearch >>
workVars == << item, attempt, opsIssued, opsGated, itemErrors >>

\* a throw out of connectBrowser: the error travels to the caller
Throw(e) ==
  /\ cbResult' = "thrown"
  /\ err' = e
  /\ pc' = "cb_thrown"

\* a navigation connectBrowser triggers from the current page
Navigate ==
  /\ navIssued' = navIssued + 1
  /\ leftSearch' = (leftSearch \/ url = "FileSearch")

(***************************************************************************)
(* The route handler up to the call of connectBrowser.                    *)
(***************************************************************************)
\* POST: await request.json() and the validation of the body
Validate ==
  /\ pc = "req"
  /\ \E valid \in BOOLEAN :
       IF valid
       THEN /\ pc' = "cb_key"
            /\ cbAttempts' = cbAttempts + 1
            /\ httpStatus' = httpStatus
       ELSE /\ pc' = "finally"
            /\ cbAttempts' = cbAttempts
            /\ httpStatus' = 400
  /\ UNCHANGED << extState, runVars, url, chanOpen, routeBrowser, captchaVars, respFilled,
                  cfElapsed, waitVars, gateVars, navVars, cbResult, err, workVars >>

(***************************************************************************)
(* connectBrowser, one action per await.                                  *)
(***************************************************************************)
\* the BROWSERLESS_API_KEY check
CheckKey ==
  /\ pc = "cb_key"
  /\ \E configured \in KeyConfigured :
       IF configured
       THEN pc' = "cb_connect" /\ UNCHANGED << cbResult, err >>
       ELSE Throw(Err("ConfigurationError"))
  /\ UNCHANGED << extState, runVars, url, chanOpen, routeBrowser, captchaVars, respFilled,
                  cfElapsed, waitVars, gateVars, navVars, cbAttempts, workVars,
                  httpStatus >>

\* chromium.connectOverCDP, the pick of context and page, the CDP session and
\* the registration of the captchaFound handler (captchaCount = 0)
Connect ==
  /\ pc = "cb_connect"
  /\ \E ok \in ConnectOutcomes :
       IF ok
       THEN /\ chanOpen' = TRUE
            /\ url' = startUrl
            /\ captchaCount' = 0
            /\ pc' = "cb_goto"
            /\ UNCHANGED << cbResult, err >>
       ELSE /\ Throw(Err("ConnectionError"))
            /\ UNCHANGED << chanOpen, url, captchaCount >>
  /\ UNCHANGED << extState, runVars, routeBrowser, solving, respFilled, cfElapsed, waitVars,
                  gateVars, navVars, cbAttempts, workVars, httpStatus >>

\* Step 1: page.goto(`${BASE_URL}/Home/Welcome`), whatever page is shown
GotoWelcome ==
  /\ pc = "cb_goto"
  /\ Navigate
  /\ \E landed \in GotoOutcomes :
       IF landed = "timeout"
       THEN /\ Throw(Err("NavigationTimeout"))
            /\ UNCHANGED << url, respFilled, cfElapsed >>
       ELSE /\ url' = landed
            /\ respFilled' = FALSE
            /\ cfElapsed' = 0
            /\ pc' = "cb_cf"
            /\ UNCHANGED << cbResult, err >>
  /\ UNCHANGED << extState, runVars, chanOpen, routeBrowser, captchaVars, waitVars,
                  gateVars, cbAttempts, workVars, httpStatus >>

\* one iteration of waitForCloudflare's loop, and the throw when it returns false
WaitForCloudflare ==
  /\ pc = "cb_cf"
  /\ IF cfElapsed < CfTimeoutMs
     THEN \E isCfChallenge \in CfIndicators :
            IF ~isCfChallenge
            THEN pc' = "cb_welcome" /\ cfElapsed' = 0 /\ UNCHANGED << cbResult, err >>
            ELSE /\ cfElapsed' = cfElapsed + CfSleepMs
                 /\ UNCHANGED << pc, cbResult, err >>
     ELSE Throw(Err("CloudflareTimeout")) /\ cfElapsed' = 0
  /\ UNCHANGED << extState, runVars, url, chanOpen, routeBrowser, captchaVars, respFilled,
                  waitVars, gateVars, navVars, cbAttempts, workVars, httpStatus >>

\* Step 2, on the Welcome page with the Start button: click it and wait for
\* the navigation
WelcomeClick ==
  /\ pc = "cb_welcome"
  /\ OnWelcome(url)
  /\ TRUE \in StartBtnFound
  /\ startBtnSeen' = "present"
  /\ Navigate
  /\ \E landed \in StartNavOutcomes :
       IF landed = "timeout"
       THEN /\ Throw(Err("NavigationTimeout"))
            /\ UNCHANGED << url, respFilled >>
       ELSE /\ url' = landed
            /\ respFilled' = FALSE
            /\ pc' = "cb_auth"
            /\ UNCHANGED << cbResult, err >>
  /\ UNCHANGED << extState, runVars, chanOpen, routeBrowser, captchaVars, cfElapsed,
                  waitVars, waited, btnClicked, cbAttempts, workVars, httpStatus >>

\* variant of WelcomeNoBtn that treats the missing button as an error
WelcomeNoBtn_Throws ==
  /\ pc = "cb_welcome"
  /\ OnWelcome(url)
  /\ FALSE \in StartBtnFound
  /\ startBtnSeen' = "absent"
  /\ Throw(Err("NoStartButton"))
  /\ UNCHANGED << extState, runVars, url, chanOpen, routeBrowser, captchaVars, respFilled,
                  cfElapsed, waitVars, waited, btnClicked, navVars, cbAttempts,
                  workVars, httpStatus >>

\* Step 2, on the Welcome page without the Start button: nothing is done
WelcomeNoBtn ==
  /\ pc = "cb_welcome"
  /\ OnWelcome(url)
  /\ FALSE \in StartBtnFound
  /\ startBtnSeen' = "absent"
  /\ pc' = "cb_auth"
  /\ UNCHANGED << extState, runVars, url, chanOpen, routeBrowser, captchaVars, respFilled,
                  cfElapsed, waitVars, waited, btnClicked, navVars, cbAttempts,
                  cbResult, err, workVars, httpStatus >>

\* Step 2, not on the Welcome page: the Start button is not looked for
WelcomeSkip ==
  /\ pc = "cb_welcome"
  /\ ~OnWelcome(url)
  /\ pc' = "cb_auth"
  /\ UNCHANGED << extState, runVars, url, chanOpen, routeBrowser, captchaVars, respFilled,
                  cfElapsed, waitVars, gateVars, navVars, cbAttempts, cbResult,
                  err, workVars, httpStatus >>

\* Step 3, on the AuthenticatePage: the promise of the challenge wait is
\* created, with its poll interval and its 25 s timer
ChallengeBegin ==
  /\ pc = "cb_auth"
  /\ ChallengeShown(url)
  /\ waited' = TRUE
  /\ done' = FALSE
  /\ intervalOn' = TRUE
  /\ timeoutArmed' = TRUE
  /\ clock' = 0
  /\ pc' = "cb_wait"
  /\ UNCHANGED << extState, runVars, url, chanOpen, routeBrowser, captchaVars, respFilled,
                  cfElapsed, duePoll, inflight, captchaSolved, resolveCalls,
                  pollsAfter, startBtnSeen, btnClicked, navVars,
                  cbAttempts, cbResult, err, workVars, httpStatus >>

\* Step 3, not on the AuthenticatePage: the whole block is skipped
ChallengeSkip ==
  /\ pc = "cb_auth"
  /\ ~ChallengeShown(url)
  /\ pc' = "cb_final"
  /\ UNCHANGED << extState, runVars, url, chanOpen, routeBrowser, captchaVars, respFilled,
                  cfElapsed, waitVars, gateVars, navVars, cbAttempts, cbResult,
                  err, workVars, httpStatus >>

\* the await of the challenge wait returns (and delay(500) when it is true)
ChallengeResume ==
  /\ pc = "cb_wait"
  /\ captchaSolved # "pending"
  /\ pc' = "cb_btn"
  /\ clock' = 0
  /\ UNCHANGED << extState, runVars, url, chanOpen, routeBrowser, captchaVars, respFilled,
                  cfElapsed, intervalOn, duePoll, timeoutArmed, inflight, done,
                  captchaSolved, resolveCalls, pollsAfter, gateVars, navVars, cbAttempts, cbResult,
                  err, workVars, httpStatus >>

\* the enabled File Search button is found: click it and wait for the navigation
FileSearchClick ==
  /\ pc = "cb_btn"
  /\ TRUE \in FileSearchBtnEnabled
  /\ btnClicked' = TRUE
  /\ Navigate
  /\ \E landed \in ClickNavOutcomes :
       IF landed = "timeout"
       THEN /\ Throw(Err("NavigationTimeout"))
            /\ UNCHANGED << url, respFilled >>
       ELSE /\ url' = landed
            /\ respFilled' = FALSE
            /\ pc' = "cb_final"
            /\ UNCHANGED << cbResult, err >>
  /\ UNCHANGED << extState, runVars, chanOpen, routeBrowser, captchaVars, cfElapsed,
                  waitVars, startBtnSeen, waited, cbAttempts, workVars, httpStatus >>

\* no enabled File Search button: a warning, nothing else
FileSearchNoBtn ==
  /\ pc = "cb_btn"
  /\ FALSE \in FileSearchBtnEnabled
  /\ pc' = "cb_final"
  /\ UNCHANGED << extState, runVars, url, chanOpen, routeBrowser, captchaVars, respFilled,
                  cfElapsed, waitVars, gateVars, navVars, cbAttempts, cbResult,
                  err, workVars, httpStatus >>

\* the final check: throw on a gate page, return { browser, page, context } otherwise
FinalCheck ==
  /\ pc = "cb_final"
  /\ IF IsGatePage(url)
     THEN Throw(GateError(url, captchaCount))
     ELSE /\ cbResult' = "returned"
          /\ pc' = "cb_returned"
          /\ err' = err
  /\ UNCHANGED << extState, runVars, url, chanOpen, routeBrowser, captchaVars, respFilled,
                  cfElapsed, waitVars, gateVars, navVars, cbAttempts, workVars,
                  httpStatus >>

(***************************************************************************)
(* The callbacks that run between the awaits of connectBrowser.           *)
(***************************************************************************)
\* connectBrowser has not yet returned or thrown
GateRunning ==
  pc \in {"cb_goto", "cb_cf", "cb_welcome", "cb_auth", "cb_wait", "cb_btn", "cb_final"}

\* cdp.on('Browserless.captchaFound'): count it and send Browserless.solveCaptcha.
\* captchaCount is last read by the final check, so notifications after it are
\* left out.
CaptchaFound ==
  /\ GateRunning
  /\ chanOpen
  /\ captchaCount < MaxCaptcha
  /\ captchaCount' = captchaCount + 1
  /\ solving' = solving + 1
  /\ UNCHANGED << extState, runVars, pc, url, chanOpen, routeBrowser, respFilled, cfElapsed,
                  waitVars, gateVars, navVars, cbAttempts, cbResult, err,
                  workVars, httpStatus >>

\* the answer to cdp.send('Browserless.solveCaptcha'): a result (the response
\* field of the challenge page is then filled) or an error (logged)
SolveDone ==
  /\ solving > 0
  /\ solving' = solving - 1
  /\ \E solved \in SolveOutcomes :
       respFilled' = (respFilled \/ (solved /\ url = "Authenticate"))
  /\ UNCHANGED << extState, runVars, pc, url, chanOpen, routeBrowser, captchaCount,
                  cfElapsed, waitVars, gateVars, navVars, cbAttempts, cbResult,
                  err, workVars, httpStatus >>

\* resolve(v) of the challenge wait: only the first call settles the promise
Resolve(v) ==
  /\ resolveCalls' = resolveCalls + 1
  /\ captchaSolved' = IF captchaSolved = "pending" THEN v ELSE captchaSolved

\* one poll interval of time passes while the wait is pending; timers that are
\* due run before time moves on
Tick ==
  /\ pc = "cb_wait"
  /\ captchaSolved = "pending"
  /\ ~duePoll
  /\ ~(timeoutArmed /\ clock >= ChallengeTimeoutMs)
  /\ clock <= ChallengeTimeoutMs
  /\ clock' = clock + PollIntervalMs
  /\ duePoll' = intervalOn
  /\ UNCHANGED << extState, runVars, pc, url, chanOpen, routeBrowser, captchaVars,
                  respFilled, cfElapsed, intervalOn, timeoutArmed, inflight, done,
                  captchaSolved, resolveCalls, pollsAfter, gateVars,
                  navVars, cbAttempts, cbResult, err, workVars, httpStatus >>

\* the interval callback starts: it suspends in page.evaluate
PollStart ==
  /\ duePoll
  /\ inflight < MaxInflight
  /\ duePoll' = FALSE
  /\ inflight' = inflight + 1
  /\ pollsAfter' = (pollsAfter \/ captchaSolved # "pending")
  /\ UNCHANGED << extState, runVars, pc, url, chanOpen, routeBrowser, captchaVars,
                  respFilled, cfElapsed, clock, intervalOn, timeoutArmed, done,
                  captchaSolved, resolveCalls, gateVars, navVars,
                  cbAttempts, cbResult, err, workVars, httpStatus >>

\* page.evaluate answers a poll callback: hasResponse, or a throw that is caught
PollEnd ==
  /\ inflight > 0
  /\ inflight' = inflight - 1
  /\ \E throws \in EvaluateThrows :
       LET hasResponse == ~throws /\ respFilled /\ url = "Authenticate" IN
       IF PollResolves(hasResponse, done)
       THEN /\ done' = TRUE
            /\ intervalOn' = FALSE
            /\ duePoll' = FALSE
            /\ Resolve("true")
       ELSE UNCHANGED << done, intervalOn, duePoll, resolveCalls, captchaSolved >>
  /\ UNCHANGED << extState, runVars, pc, url, chanOpen, routeBrowser, captchaVars,
                  respFilled, cfElapsed, clock, timeoutArmed, pollsAfter, gateVars,
                  navVars, cbAttempts, cbResult, err, workVars, httpStatus >>

\* the 25 s timer fires: at its time while the wait is pending, at some later
\* moment once the wait has resolved
TimeoutFire ==
  /\ timeoutArmed
  /\ clock >= ChallengeTimeoutMs \/ captchaSolved # "pending"
  /\ timeoutArmed' = FALSE
  /\ IF TimeoutResolves(done)
     THEN /\ done' = TRUE
          /\ intervalOn' = FALSE
          /\ duePoll' = FALSE
          /\ Resolve("false")
     ELSE UNCHANGED << done, intervalOn, duePoll, resolveCalls, captchaSolved >>
  /\ UNCHANGED << extState, runVars, pc, url, chanOpen, routeBrowser, captchaVars,
                  respFilled, cfElapsed, clock, inflight, pollsAfter, gateVars,
                  navVars, cbAttempts, cbResult, err, workVars, httpStatus >>

(***************************************************************************)
(* The route handler after connectBrowser.                                *)
(***************************************************************************)
\* connectBrowser returned: browser = connection.browser
AssignBrowser ==
  /\ pc = "cb_returned"
  /\ routeBrowser' = TRUE
  /\ pc' = "work"
  /\ UNCHANGED << extState, runVars, url, chanOpen, captchaVars, respFilled, cfElapsed,
                  waitVars, gateVars, navVars, cbAttempts, cbResult, err,
                  workVars, httpStatus >>

\* connectBrowser threw: the call is not wrapped, the error reaches the catch
OnConnectThrow ==
  /\ pc = "cb_thrown"
  /\ pc' = "catch"
  /\ UNCHANGED << extState, runVars, url, chanOpen, routeBrowser, captchaVars, respFilled,
                  cfElapsed, waitVars, gateVars, navVars, cbAttempts, cbResult,
                  err, workVars, httpStatus >>

\* one attempt of withRetry on the current chunk (searchAndCollectFiles) or
\* file (lookupFile, downloadAndParsePDF): exhaustion aborts the search route
\* and becomes the file's error Outcome in the batch route
OpAttempt ==
  /\ pc = "work"
  /\ item <= nItems
  /\ opsIssued' = opsIssued + 1
  /\ opsGated' = (opsGated \/ cbResult # "returned" \/ ~routeBrowser)
  /\ \E ok \in OpOutcomes :
       CASE ok ->
              /\ item' = item + 1
              /\ attempt' = 1
              /\ UNCHANGED << pc, err, itemErrors >>
         [] ~ok /\ attempt < MAX_RETRIES ->
              /\ attempt' = attempt + 1
              /\ UNCHANGED << pc, err, item, itemErrors >>
         [] ~ok /\ attempt >= MAX_RETRIES /\ route = "search" ->
              /\ err' = Err("RetryExhausted")
              /\ pc' = "catch"
              /\ UNCHANGED << item, attempt, itemErrors >>
         [] ~ok /\ attempt >= MAX_RETRIES /\ route = "batch" ->
              /\ itemErrors' = itemErrors + 1
              /\ item' = item + 1
              /\ attempt' = 1
              /\ UNCHANGED << pc, err >>
  /\ UNCHANGED << extState, runVars, url, chanOpen, routeBrowser, captchaVars, respFilled,
                  cfElapsed, waitVars, gateVars, navVars, cbAttempts, cbResult,
                  httpStatus >>

\* the loop is over: NextResponse.json({ success: true, ... })
Respond ==
  /\ pc = "work"
  /\ item > nItems
  /\ httpStatus' = 200
  /\ pc' = "finally"
  /\ UNCHANGED << extState, runVars, url, chanOpen, routeBrowser, captchaVars, respFilled,
                  cfElapsed, waitVars, gateVars, navVars, cbAttempts, cbResult,
                  err, workVars >>

\* catch (err): NextResponse.json({ error: err.message }, { status: 500 })
Catch ==
  /\ pc = "catch"
  /\ httpStatus' = 500
  /\ pc' = "finally"
  /\ UNCHANGED << extState, runVars, url, chanOpen, routeBrowser, captchaVars, respFilled,
                  cfElapsed, waitVars, gateVars, navVars, cbAttempts, cbResult,
                  err, workVars >>

\* finally: if (browser) browser.close()
Finally ==
  /\ pc = "finally"
  /\ chanOpen' = IF routeBrowser THEN FALSE ELSE chanOpen
  /\ pc' = "done"
  /\ UNCHANGED << extState, runVars, url, routeBrowser, captchaVars, respFilled, cfElapsed,
                  waitVars, gateVars, navVars, cbAttempts, cbResult, err,
                  workVars, httpStatus >>

Next ==
  \/ Validate
  \/ CheckKey
  \/ Connect
  \/ GotoWelcome
  \/ WaitForCloudflare
  \/ WelcomeClick
  \/ WelcomeNoBtn
  \/ WelcomeSkip
  \/ ChallengeBegin
  \/ ChallengeSkip
  \/ ChallengeResume
  \/ FileSearchClick
  \/ FileSearchNoBtn
  \/ FinalCheck
  \/ CaptchaFound
  \/ SolveDone
  \/ Tick
  \/ PollStart
  \/ PollEnd
  \/ TimeoutFire
  \/ AssignBrowser
  \/ OnConnectThrow
  \/ OpAttempt
  \/ Respond
  \/ Catch
  \/ Finally

Spec == Init /\ [][Next]_vars

\* the event loop runs every callback and continuation that is ready, and timers fire
FairSpec == Spec /\ WF_vars(Next)

(***************************************************************************)
(* Properties of the gate bypass and of the run around it.                *)
(***************************************************************************)
GatePages == {"Welcome", "Authenticate"}

\* C1: connectBrowser hands a session to its caller only with the final URL off
\* the Welcome and Authenticate pages, the route assigns its browser only from
\* such a return, and every search, lookup or document operation of a run is
\* issued after that return.
C1_GateBeforeUse ==
  /\ pc = "cb_returned" => url \notin GatePages
  /\ routeBrowser => cbResult = "returned"
  /\ opsIssued > 0 => cbResult = "returned" /\ routeBrowser
  /\ ~opsGated

C1_Witness ==
  /\ cbResult = "returned"
  /\ waited
  /\ btnClicked
  /\ opsIssued > 0

\* C2: when the final check is reached on the Welcome or Authenticate page,
\* connectBrowser throws the gate-bypass error carrying that URL and the number
\* of captchaFound notifications counted up to that moment, and it returns
\* nothing; no other step makes that error.
C2_GateErrorCarriesUrlAndCount ==
  [][ /\ (pc = "cb_final" /\ url \in GatePages /\ pc' # pc)
         => /\ pc' = "cb_thrown"
            /\ cbResult' = "thrown"
            /\ err' = [kind |-> "GateBypassFailed", url |-> url, count |-> captchaCount]
            /\ routeBrowser' = FALSE
      /\ (err'.kind = "GateBypassFailed" /\ err.kind # "GateBypassFailed")
         => pc = "cb_final" /\ url \in GatePages
    ]_vars

C2_Witness ==
  /\ pc = "cb_thrown"
  /\ err = [kind |-> "GateBypassFailed", url |-> "Authenticate", count |-> 2]
  /\ captchaCount = 2

\* C3: no run ends with its automation channel still open.
C3_ChannelClosedOnExit == pc = "done" => ~chanOpen

\* C4: connectBrowser on a session whose page is already on the search page
\* triggers no navigation away from it and ends with the session ready.
C4_SecondBypassIsNoOp ==
  (startUrl = "FileSearch" /\ chanOpen /\ cbAttempts > 0)
    => /\ ~leftSearch
       /\ navIssued = 0
       /\ cbResult # "thrown"
       /\ cbResult = "returned" => url = "FileSearch"

\* C5: against the channel that serves Welcome, then the Challenge page whose
\* response field the solve command fills, then the search page on the click of
\* the enabled File Search button, every call of connectBrowser returns with
\* the page on the search page.
C5_HappyPathReady ==
  (stub = "happyPath" /\ pc = "cb_key")
    ~> (cbResult = "returned" /\ url = "FileSearch" /\ waited /\ btnClicked)

C5_Witness ==
  /\ stub = "happyPath"
  /\ pc = "cb_returned"
  /\ url = "FileSearch"
  /\ captchaSolved = "true"
  /\ btnClicked

\* C6: against a channel whose page never leaves the Challenge page, a
\* connectBrowser whose challenge wait timed out ends with the gate-bypass error.
C6_StuckEndsWithGateError ==
  (stub = "stuckOnChallenge" /\ waited /\ captchaSolved = "false" /\ cbResult # "none")
    => cbResult = "thrown" /\ err.kind = "GateBypassFailed"

\* C7: the challenge wait is never pending past its 25 s timer; resolve() is
\* called exactly once, with true only when a poll read the response field
\* non-empty within the 25 s and with false only by the timer; once it has
\* resolved the interval is cleared and no poll callback starts, whatever poll
\* callbacks are still suspended.
C7_BoundedWaitResolvesOnce ==
  /\ resolveCalls <= 1
  /\ (waited /\ captchaSolved = "pending")
       => timeoutArmed /\ clock <= ChallengeTimeoutMs /\ resolveCalls = 0 /\ ~done
  /\ captchaSolved # "pending"
       => resolveCalls = 1 /\ done /\ ~intervalOn /\ ~duePoll
  /\ (pc = "cb_wait" /\ captchaSolved = "true")
       => respFilled /\ url = "Authenticate" /\ clock <= ChallengeTimeoutMs
  /\ (pc = "cb_wait" /\ captchaSolved = "false")
       => clock = ChallengeTimeoutMs /\ ~timeoutArmed
  /\ ~pollsAfter

C7_Witness ==
  /\ captchaSolved = "false"
  /\ inflight > 0
  /\ respFilled
  /\ pc = "cb_wait"

\* C8: a Welcome step that activates no control (the Start button is missing, or
\* the page is not the Welcome page) raises no error and triggers no
\* navigation: connectBrowser goes on to the check for the AuthenticatePage.
C8_MissingStartIsNotAnError ==
  [][ (pc = "cb_welcome" /\ pc' # pc /\ startBtnSeen' # "present")
        => /\ pc' = "cb_auth"
           /\ cbResult' = "none"
           /\ err' = NoErr
           /\ url' = url
           /\ navIssued' = navIssued
    ]_vars

C8_Witness ==
  /\ startBtnSeen = "absent"
  /\ pc = "cb_final"
  /\ cbResult = "none"
  /\ err = NoErr

\* C9 as stated: when no challenge page is shown after the Welcome step,
\* connectBrowser still activates the File Search control before the final check.
C9_Original_ClicksWithoutChallenge ==
  (pc \in {"cb_final", "cb_returned", "cb_thrown"} /\ ~waited /\ err.kind \in {"none", "GateBypassFailed"})
    => btnClicked

\* C9, amended: when no challenge page is shown after the Welcome step,
\* connectBrowser starts no challenge wait, raises no error on that account and
\* goes straight to the final check of the URL; it does not look for the File
\* Search control, which it activates only after a challenge wait.
C9_NoChallengeGoesToFinalCheck ==
  /\ [][ (pc = "cb_auth" /\ url # "Authenticate" /\ pc' # pc)
           => /\ pc' = "cb_final"
              /\ cbResult' = "none"
              /\ err' = NoErr
              /\ ~waited'
              /\ ~timeoutArmed' /\ ~intervalOn'
              /\ navIssued' = navIssued
       ]_vars
  /\ [](btnClicked => waited)
  /\ []((pc = "cb_returned" /\ ~waited) => (~btnClicked /\ url \notin GatePages))

C9_Witness ==
  /\ pc = "cb_returned"
  /\ ~waited
  /\ ~btnClicked
  /\ startBtnSeen = "present"
  /\ url = "FileSearch"

\* C10: a gate-bypass failure that a run surfaces has been re-attempted at
\* least once, and at most up to the retry ceiling.
C10_GateFailureRetried ==
  (httpStatus = 500 /\ err.kind = "GateBypassFailed")
    => cbAttempts >= 2 /\ cbAttempts <= MAX_RETRIES

(***************************************************************************)
(* POST /api/process-batch: the loop over the files of one request.       *)
(* One action per await of the handler and of the helpers it calls        *)
(* (lookupFile, openProbatePetitionPDF, downloadAndParsePDF, delay).      *)
(***************************************************************************)
MaxFiles == 3               \* files.length of a request

\* no run of a route or of connectBrowser is being looked at
RunIdle ==
  /\ route = "batch" /\ stub = "live" /\ pc = "idle"
  /\ url = "none" /\ startUrl = "blank"
  /\ chanOpen = FALSE /\ routeBrowser = FALSE
  /\ captchaCount = 0 /\ solving = 0 /\ respFilled = FALSE
  /\ cfElapsed = 0 /\ clock = 0
  /\ intervalOn = FALSE /\ duePoll = FALSE /\ timeoutArmed = FALSE
  /\ inflight = 0 /\ done = FALSE /\ captchaSolved = "pending"
  /\ resolveCalls = 0 /\ pollsAfter = FALSE
  /\ startBtnSeen = "unqueried" /\ waited = FALSE /\ btnClicked = FALSE
  /\ navIssued = 0 /\ leftSearch = FALSE
  /\ cbAttempts = 0 /\ cbResult = "none" /\ err = NoErr
  /\ item = 1 /\ nItems = 1 /\ attempt = 1
  /\ opsIssued = 0 /\ opsGated = FALSE /\ itemErrors = 0
  /\ httpStatus = 0

BatchInit ==
  /\ RunIdle
  /\ RetryIdle
  /\ FormIdle
  /\ RestIdle
  /\ bpc = "b_req"
  /\ nFiles \in 0..MaxFiles
  /\ bi = 1
  /\ results = << >>
  /\ batchStats = [included |-> 0, skipped |-> 0, errors |-> 0]
  /\ bAttempt = 1
  /\ bErr = "none"
  /\ bPdf = "none"
  /\ tabOpen = 0
  /\ pdfOpen = 0
  /\ bChanOpen = FALSE
  /\ bDelayed = FALSE
  /\ bNoDelay = FALSE
  /\ cancelled = FALSE
  /\ bAfterCancel = FALSE
  /\ bStatus = 0

\* what the third parties can answer
BConnectOutcomes == {"ok", "fail"}
LookupOutcomes == {"pdfUrl", "noPdfUrl", "fail"}
LinkFound == BOOLEAN
TabEventOutcomes == {"page", "timeout"}
TabLoadOutcomes == {"loaded", "fail"}
NewPageOutcomes == {"page", "fail"}
PdfOutcomes == {"text", "emptyText", "gotoFail", "noContent", "parseFail"}
MeetsThreshold == BOOLEAN

\* the message a failed attempt of downloadAndParsePDF throws
PdfMessage(o) ==
  CASE o = "gotoFail" -> "page.goto failed"
    [] o = "noContent" -> "Could not download PDF content"
    [] o = "parseFail" -> "pdf-parse failed"
    [] OTHER -> "none"

RetryMessage_NoCause(label, msg) ==
  label \o " failed after " \o ToString(MAX_RETRIES) \o " attempts"
\* the message of the Error withRetry throws when its last attempt failed
RetryMessage(label, msg) ==
  label \o " failed after " \o ToString(MAX_RETRIES) \o " attempts: " \o msg

Outcome(i, st, rsn) == [file |-> i, status |-> st, reason |-> rsn]

Bump_ErrorsOnly(stats, st) == [stats EXCEPT !.errors = @ + 1]
\* batchStats.included++, batchStats.skipped++ or batchStats.errors++
Bump(stats, st) ==
  CASE st = "included" -> [stats EXCEPT !.included = @ + 1]
    [] st = "skipped" -> [stats EXCEPT !.skipped = @ + 1]
    [] OTHER -> [stats EXCEPT !.errors = @ + 1]

\* results.push({...}) followed by the counter's increment
Record(st, rsn) ==
  /\ results' = Append(results, Outcome(bi, st, rsn))
  /\ batchStats' = Bump(batchStats, st)

\* `continue`: the next iteration starts, the statement after the try is skipped
Continue ==
  /\ bi' = bi + 1
  /\ bpc' = "b_loop"

bFlags == << bDelayed, bNoDelay, cancelled, bAfterCancel >>
bPages == << tabOpen, pdfOpen >>
bOut == << results, batchStats >>

\* request.json() and the check of county and files
BValidate ==
  /\ bpc = "b_req"
  /\ \E countyGiven \in BOOLEAN :
       IF countyGiven /\ nFiles > 0
         THEN bpc' = "b_connect" /\ UNCHANGED bStatus
         ELSE bpc' = "b_finally" /\ bStatus' = 400
  /\ UNCHANGED << notBatch, nFiles, bi, bOut, bAttempt, bErr, bPdf, bPages,
                  bChanOpen, bFlags >>

\* await connectBrowser(); browser = connection.browser
BConnect ==
  /\ bpc = "b_connect"
  /\ \E o \in BConnectOutcomes :
       IF o = "ok"
         THEN bpc' = "b_loop" /\ bChanOpen' = TRUE /\ UNCHANGED bErr
         ELSE bpc' = "b_catch" /\ bErr' = "connectBrowser failed"
                /\ UNCHANGED bChanOpen
  /\ UNCHANGED << notBatch, nFiles, bi, bOut, bAttempt, bPdf, bPages, bFlags,
                  bStatus >>

\* for (const file of files): the next file starts
FileStart ==
  /\ bpc = "b_loop"
  /\ bi <= nFiles
  /\ bpc' = "b_lookup"
  /\ bAttempt' = 1
  /\ bErr' = "none"
  /\ bNoDelay' = (bNoDelay \/ (bi > 1 /\ ~bDelayed))
  /\ bAfterCancel' = (bAfterCancel \/ cancelled)
  /\ bDelayed' = FALSE
  /\ UNCHANGED << notBatch, nFiles, bi, bOut, bPdf, bPages, bChanOpen,
                  cancelled, bStatus >>

\* the loop is over: NextResponse.json({ success, results, batchStats })
BRespond ==
  /\ bpc = "b_loop"
  /\ bi > nFiles
  /\ bpc' = "b_finally"
  /\ bStatus' = 200
  /\ UNCHANGED << notBatch, nFiles, bi, bOut, bAttempt, bErr, bPdf, bPages,
                  bChanOpen, bFlags >>

\* one attempt of withRetry(() => lookupFile(...), `Lookup ...`)
Lookup ==
  /\ bpc = "b_lookup"
  /\ \E o \in LookupOutcomes :
       CASE o = "pdfUrl" ->
              bpc' = "b_pdf_open" /\ bAttempt' = 1 /\ UNCHANGED bErr
         [] o = "noPdfUrl" ->
              bpc' = "b_tab" /\ bAttempt' = 1 /\ UNCHANGED bErr
         [] OTHER ->
              IF bAttempt = MAX_RETRIES
                THEN /\ bpc' = "b_catch_file"
                     /\ bErr' = RetryMessage("Lookup", "lookupFile failed")
                     /\ UNCHANGED bAttempt
                ELSE /\ bAttempt' = bAttempt + 1
                     /\ UNCHANGED << bpc, bErr >>
  /\ UNCHANGED << notBatch, nFiles, bi, bOut, bPdf, bPages, bChanOpen, bFlags,
                  bStatus >>

NoPdf_NoRecord ==
  /\ bpc = "b_tab"
  /\ \E found \in LinkFound : ~found
  /\ Continue
  /\ UNCHANGED << notBatch, nFiles, bOut, bAttempt, bErr, bPdf, bPages,
                  bChanOpen, bFlags, bStatus >>
\* openProbatePetitionPDF: page.$ finds no link, null is returned, and the
\* route records 'No PDF available' and continues
NoPdf ==
  /\ bpc = "b_tab"
  /\ \E found \in LinkFound : ~found
  /\ Record("error", "No PDF available")
  /\ Continue
  /\ UNCHANGED << notBatch, nFiles, bAttempt, bErr, bPdf, bPages, bChanOpen,
                  bFlags, bStatus >>

\* openProbatePetitionPDF: Promise.all([context.waitForEvent('page'), click])
TabOpen ==
  /\ bpc = "b_tab"
  /\ \E found \in LinkFound : found
  /\ \E o \in TabEventOutcomes :
       IF o = "page"
         THEN bpc' = "b_tab_load" /\ tabOpen' = tabOpen + 1 /\ UNCHANGED bErr
         ELSE bpc' = "b_catch_file" /\ bErr' = "waitForEvent timed out"
                /\ UNCHANGED tabOpen
  /\ UNCHANGED << notBatch, nFiles, bi, bOut, bAttempt, bPdf, pdfOpen,
                  bChanOpen, bFlags, bStatus >>

\* openProbatePetitionPDF: newPage.waitForLoadState, delay(1000),
\* newPage.url(), newPage.close()
TabLoad ==
  /\ bpc = "b_tab_load"
  /\ \E o \in TabLoadOutcomes :
       IF o = "loaded"
         THEN bpc' = "b_pdf_open" /\ tabOpen' = tabOpen - 1 /\ UNCHANGED bErr
         ELSE bpc' = "b_catch_file" /\ bErr' = "waitForLoadState failed"
                /\ UNCHANGED tabOpen
  /\ UNCHANGED << notBatch, nFiles, bi, bOut, bAttempt, bPdf, pdfOpen,
                  bChanOpen, bFlags, bStatus >>

\* withRetry's catch for an attempt of downloadAndParsePDF that threw msg
PdfRetry(msg) ==
  IF bAttempt = MAX_RETRIES
    THEN /\ bpc' = "b_catch_file"
         /\ bErr' = RetryMessage("PDF parse", msg)
         /\ UNCHANGED bAttempt
    ELSE /\ bpc' = "b_pdf_open"
         /\ bAttempt' = bAttempt + 1
         /\ UNCHANGED bErr

\* downloadAndParsePDF: const pdfPage = await context.newPage()
PdfOpen ==
  /\ bpc = "b_pdf_open"
  /\ \E o \in NewPageOutcomes :
       IF o = "page"
         THEN /\ bpc' = "b_pdf_work"
              /\ pdfOpen' = pdfOpen + 1
              /\ UNCHANGED << bAttempt, bErr >>
         ELSE /\ PdfRetry("context.newPage failed")
              /\ UNCHANGED pdfOpen
  /\ UNCHANGED << notBatch, nFiles, bi, bOut, bPdf, tabOpen, bChanOpen, bFlags,
                  bStatus >>

\* downloadAndParsePDF: the try block, from pdfPage.goto to pdfParse
PdfWork ==
  /\ bpc = "b_pdf_work"
  /\ \E o \in PdfOutcomes : bPdf' = o
  /\ bpc' = "b_pdf_finally"
  /\ UNCHANGED << notBatch, nFiles, bi, bOut, bAttempt, bErr, bPages,
                  bChanOpen, bFlags, bStatus >>

PdfCloses_OnReturnOnly(o) == o \in {"text", "emptyText"}
\* finally { await pdfPage.close() }: the page is closed however the try ended
PdfCloses(o) == TRUE

\* downloadAndParsePDF's finally, then the return to withRetry and to the loop
PdfFinally ==
  /\ bpc = "b_pdf_finally"
  /\ pdfOpen' = IF PdfCloses(bPdf) THEN pdfOpen - 1 ELSE pdfOpen
  /\ bPdf' = "none"
  /\ CASE bPdf = "text" ->
            /\ bpc' = "b_parse"
            /\ UNCHANGED << bi, bOut, bAttempt, bErr >>
       [] bPdf = "emptyText" ->
            /\ Record("skipped", "PDF text extraction empty (possible scanned image)")
            /\ Continue
            /\ UNCHANGED << bAttempt, bErr >>
       [] OTHER ->
            /\ PdfRetry(PdfMessage(bPdf))
            /\ UNCHANGED << bi, bOut >>
  /\ UNCHANGED << notBatch, nFiles, tabOpen, bChanOpen, bFlags, bStatus >>

\* parseProbateText, meetsValueThreshold and the push of the Outcome
Classify ==
  /\ bpc = "b_parse"
  /\ \E meets \in MeetsThreshold :
       IF meets
         THEN /\ Record("included", "none")
              /\ bpc' = "b_delay"
              /\ UNCHANGED bi
         ELSE /\ Record("skipped", "Estate value below threshold")
              /\ Continue
  /\ UNCHANGED << notBatch, nFiles, bAttempt, bErr, bPdf, bPages, bChanOpen,
                  bFlags, bStatus >>

CatchFile_Rethrows ==
  /\ bpc = "b_catch_file"
  /\ bpc' = "b_catch"
  /\ UNCHANGED << notBatch, nFiles, bi, bOut, bAttempt, bErr, bPdf, bPages,
                  bChanOpen, bFlags, bStatus >>
\* the loop's catch (err): an error Outcome with reason err.message
CatchFile ==
  /\ bpc = "b_catch_file"
  /\ Record("error", bErr)
  /\ bpc' = "b_delay"
  /\ UNCHANGED << notBatch, nFiles, bi, bAttempt, bErr, bPdf, bPages,
                  bChanOpen, bFlags, bStatus >>

\* await delay(), the last statement of the loop's body
Delay ==
  /\ bpc = "b_delay"
  /\ bDelayed' = TRUE
  /\ Continue
  /\ UNCHANGED << notBatch, nFiles, bOut, bAttempt, bErr, bPdf, bPages,
                  bChanOpen, bNoDelay, cancelled, bAfterCancel, bStatus >>

\* the handler's catch: status 500 with err.message
BCatch ==
  /\ bpc = "b_catch"
  /\ bStatus' = 500
  /\ bpc' = "b_finally"
  /\ UNCHANGED << notBatch, nFiles, bi, bOut, bAttempt, bErr, bPdf, bPages,
                  bChanOpen, bFlags >>

\* finally { if (browser) await browser.close() }: the pages go with it
BFinally ==
  /\ bpc = "b_finally"
  /\ bChanOpen' = FALSE
  /\ tabOpen' = 0
  /\ pdfOpen' = 0
  /\ bpc' = "b_done"
  /\ UNCHANGED << notBatch, nFiles, bi, bOut, bAttempt, bErr, bPdf, bFlags,
                  bStatus >>

\* positions at which a file of the batch is being processed
InFile == {"b_lookup", "b_tab", "b_tab_load", "b_pdf_open", "b_pdf_work",
           "b_pdf_finally", "b_parse", "b_catch_file", "b_delay"}

\* the user presses Cancel while a file of the batch is being processed
\* (handleCancel: abortRef.current?.abort())
Cancel ==
  /\ bpc \in InFile
  /\ ~cancelled
  /\ cancelled' = TRUE
  /\ UNCHANGED << notBatch, bpc, nFiles, bi, bOut, bAttempt, bErr, bPdf,
                  bPages, bChanOpen, bDelayed, bNoDelay, bAfterCancel, bStatus >>

BatchNext ==
  \/ BValidate \/ BConnect \/ FileStart \/ BRespond
  \/ Lookup \/ NoPdf \/ TabOpen \/ TabLoad
  \/ PdfOpen \/ PdfWork \/ PdfFinally \/ Classify
  \/ CatchFile \/ Delay \/ BCatch \/ BFinally
  \/ Cancel

SpecBatch == BatchInit /\ [][BatchNext]_vars

Statuses == {"included", "skipped", "error"}

\* the number of Outcomes of a status in the results of the batch
CountOf(st) == Cardinality({i \in 1..Len(results) : results[i].status = st})

\* C11: a batch whose session was established answers 200 with one Outcome per
\* input file, in input order, each included, skipped or error; a file's
\* failure becomes its error Outcome with a reason and never the failure of
\* the batch (only a failed connection ends the request with 500); the
\* Outcomes pushed earlier stay as they were while the later files are
\* processed.
C11_OneOutcomePerFile ==
  /\ [](bStatus = 200 =>
          /\ Len(results) = nFiles
          /\ \A i \in 1..nFiles :
               /\ results[i].file = i
               /\ results[i].status \in Statuses
               /\ results[i].status = "error" => results[i].reason # "none")
  /\ [](bStatus = 500 => bErr = "connectBrowser failed" /\ results = << >>)
  /\ [](bpc = "b_done" => bStatus \in {200, 400, 500})
  /\ [][/\ Len(results') >= Len(results)
        /\ SubSeq(results', 1, Len(results)) = results]_vars

C11_Witness ==
  /\ bStatus = 200
  /\ nFiles = 3
  /\ results[1].status = "included"
  /\ results[2].status = "error"
  /\ results[2].reason = RetryMessage("PDF parse", "Could not download PDF content")
  /\ results[3].status = "skipped"

\* C13: the three counters of batchStats equal the numbers of Outcomes of the
\* corresponding status at every moment, and in a batch response their sum is
\* the number of Outcomes and the number of input files.
C13_StatsMatchOutcomes ==
  /\ batchStats.included = CountOf("included")
  /\ batchStats.skipped = CountOf("skipped")
  /\ batchStats.errors = CountOf("error")
  /\ bStatus = 200 =>
       /\ batchStats.included + batchStats.skipped + batchStats.errors = Len(results)
       /\ Len(results) = nFiles

C13_Witness ==
  /\ bStatus = 200
  /\ batchStats.included = 1
  /\ batchStats.skipped = 1
  /\ batchStats.errors = 1

\* C14: no file of a batch starts unless delay() ran after the previous file's
\* Outcome. The code breaks this: the three `continue` statements skip the
\* delay at the end of the loop's body.
C14_DelayBetweenFilings == ~bNoDelay

\* C15: no file of a batch starts once the cancellation signal is raised. The
\* code breaks this: the loop of the batch route reads no signal.
C15_NoFilingAfterCancel == ~bAfterCancel

\* C17: the pdfPage of downloadAndParsePDF is open only inside its try block:
\* whenever the function has returned or thrown, the page is closed, and an
\* attempt of withRetry never finds the page of an earlier attempt open.
C17_PdfPageClosed ==
  /\ pdfOpen \in {0, 1}
  /\ pdfOpen = 1 => bpc \in {"b_pdf_work", "b_pdf_finally"}

C17_Witness ==
  /\ bpc = "b_catch_file"
  /\ bErr = RetryMessage("PDF parse", "pdf-parse failed")
  /\ pdfOpen = 0

\* C18: the tab of openProbatePetitionPDF is open only between the page event
\* and the end of the function. The code breaks this: a failure of
\* waitForLoadState leaves the function before newPage.close().
C18_TabClosed == tabOpen > 0 => bpc = "b_tab_load"

(***************************************************************************)
(* The two loops side by side: a batch run from its request, or a search  *)
(* run from the moment connectBrowser has returned and the route holds    *)
(* its browser (the state AssignBrowser leaves after a Welcome step that  *)
(* led off the gate pages with no challenge).                             *)
(***************************************************************************)
SearchAtWork ==
  /\ route = "search" /\ stub = "live" /\ pc = "work"
  /\ url = "FileSearch" /\ startUrl = "blank"
  /\ chanOpen = TRUE /\ routeBrowser = TRUE
  /\ captchaCount = 0 /\ solving = 0 /\ respFilled = FALSE
  /\ cfElapsed = 0 /\ clock = 0
  /\ intervalOn = FALSE /\ duePoll = FALSE /\ timeoutArmed = FALSE
  /\ inflight = 0 /\ done = FALSE /\ captchaSolved = "pending"
  /\ resolveCalls = 0 /\ pollsAfter = FALSE
  /\ startBtnSeen = "present" /\ waited = FALSE /\ btnClicked = FALSE
  /\ navIssued = 2 /\ leftSearch = FALSE
  /\ cbAttempts = 1 /\ cbResult = "returned" /\ err = NoErr
  /\ item = 1 /\ nItems \in 1..MaxItems /\ attempt = 1
  /\ opsIssued = 0 /\ opsGated = FALSE /\ itemErrors = 0
  /\ httpStatus = 0

LoopsInit ==
  \/ BatchInit
  \/ SearchAtWork /\ BatchIdle /\ RetryIdle /\ FormIdle /\ RestIdle

LoopsNext == BatchNext \/ OpAttempt \/ Respond \/ Catch \/ Finally

SpecLoops == LoopsInit /\ [][LoopsNext]_vars

\* C16: in a batch run one file is in processing at a time, in input order:
\* while file bi is looked up, opened, parsed or caught, exactly the Outcomes of
\* the files 1..bi-1 are recorded, in that order, and the loop moves to the
\* next file only from the file before it; in a search run the chunk loop
\* moves from a chunk to the next one only, by an attempt on that chunk.
C16_OneAtATimeInOrder ==
  /\ [](bpc \in (InFile \ {"b_delay"}) \cup {"b_loop"} => Len(results) = bi - 1)
  /\ [](bpc = "b_delay" => Len(results) = bi)
  /\ [](\A j \in 1..Len(results) : results[j].file = j)
  /\ [][bi' = bi \/ (bi' = bi + 1 /\ bpc \in InFile /\ bpc' = "b_loop")]_vars
  /\ [][item' = item \/ (item' = item + 1 /\ pc = "work" /\ pc' = "work"
                          /\ opsIssued' = opsIssued + 1)]_vars

C16_Witness ==
  /\ bpc = "b_lookup"
  /\ bi = 3
  /\ Len(results) = 2
  /\ results[1].status = "error"
  /\ results[2].status = "skipped"

(***************************************************************************)
(* withRetry(fn, label): one call, whatever fn does at each invocation.   *)
(***************************************************************************)
REQUEST_DELAY_MS == 1500
BackoffBaseMs == 1500

\* the labels the routes pass, and the default
Labels == {"operation", "Search", "Lookup", "PDF parse"}
\* what fn can resolve with
FnValues == {"files", "fileHistory", "pdfText"}
\* what fn can throw
FailureKinds == {"TimeoutError", "TypeError", "Error"}

FailureMessage(k) ==
  CASE k = "TimeoutError" -> "Timeout 15000ms exceeded"
    [] k = "TypeError" -> "Cannot read properties of null"
    [] OTHER -> "Gate bypass failed"

Succeeded(v) == [ok |-> TRUE, kind |-> "none", out |-> v]
Failed(k) == [ok |-> FALSE, kind |-> k, out |-> FailureMessage(k)]

\* delay(ms): setTimeout(resolve, ms || REQUEST_DELAY_MS)
DelayMs(ms) == IF ms = 0 THEN REQUEST_DELAY_MS ELSE ms

BackoffMs_NextAttempt(a) == (a + 1) * BackoffBaseMs
\* const backoff = attempt * 1500
BackoffMs(a) == a * BackoffBaseMs

LastAttempt_Never(a) == FALSE
\* if (attempt === MAX_RETRIES)
LastAttempt(a) == a = MAX_RETRIES

RetryInit ==
  /\ RunIdle
  /\ BatchIdle
  /\ FormIdle
  /\ RestIdle
  /\ rpc = "r_call"
  /\ rLabel \in Labels
  /\ rAttempt = 1
  /\ rHist = << >>
  /\ rResult = "none"
  /\ rWaits = << >>

notRetry == << runState, batchState, formState, restState >>

\* try { return await fn(); }
InvokeOk ==
  /\ rpc = "r_call"
  /\ \E v \in FnValues :
       /\ rHist' = Append(rHist, Succeeded(v))
       /\ rResult' = v
  /\ rpc' = "r_returned"
  /\ UNCHANGED << notRetry, rLabel, rAttempt, rWaits >>

\* catch (err): the last attempt throws the labelled Error, the others go on
\* to the backoff
InvokeFail ==
  /\ rpc = "r_call"
  /\ \E k \in FailureKinds :
       /\ rHist' = Append(rHist, Failed(k))
       /\ IF LastAttempt(rAttempt)
            THEN /\ rResult' = RetryMessage(rLabel, FailureMessage(k))
                 /\ rpc' = "r_thrown"
            ELSE /\ rpc' = "r_backoff"
                 /\ UNCHANGED rResult
  /\ UNCHANGED << notRetry, rLabel, rAttempt, rWaits >>

\* await delay(backoff); attempt++; attempt <= MAX_RETRIES
Backoff ==
  /\ rpc = "r_backoff"
  /\ rWaits' = Append(rWaits, DelayMs(BackoffMs(rAttempt)))
  /\ rAttempt' = rAttempt + 1
  /\ IF rAttempt + 1 <= MAX_RETRIES
       THEN rpc' = "r_call" /\ UNCHANGED rResult
       ELSE rpc' = "r_returned" /\ rResult' = "undefined"
  /\ UNCHANGED << notRetry, rLabel, rHist >>

RetryNext == InvokeOk \/ InvokeFail \/ Backoff

SpecRetry == RetryInit /\ [][RetryNext]_vars

\* C19: fn is invoked at most MAX_RETRIES times, a success is always the last
\* invocation, and withRetry returns exactly when an invocation succeeded,
\* with that invocation's value.
C19_ReturnsFirstSuccess ==
  /\ Len(rHist) <= MAX_RETRIES
  /\ \A j \in 1..(Len(rHist) - 1) : ~rHist[j].ok
  /\ rpc = "r_returned" =>
       /\ rHist # << >>
       /\ rHist[Len(rHist)].ok
       /\ rResult = rHist[Len(rHist)].out

C19_Witness ==
  /\ rpc = "r_returned"
  /\ Len(rHist) = MAX_RETRIES
  /\ ~rHist[1].ok
  /\ rResult = "pdfText"

\* C20: withRetry throws only after MAX_RETRIES invocations that all failed;
\* the message is the label, the number of attempts and the message of the
\* last failure; a failure of any kind before the last attempt is followed by
\* the backoff and the next attempt.
C20_ThrowsAfterAllFailed ==
  /\ rpc = "r_thrown" =>
       /\ Len(rHist) = MAX_RETRIES
       /\ \A j \in 1..Len(rHist) : ~rHist[j].ok
       /\ rResult = rLabel \o " failed after " \o ToString(Len(rHist))
                      \o " attempts: " \o rHist[Len(rHist)].out
  /\ \A k \in FailureKinds :
       (rHist # << >> /\ Len(rHist) < MAX_RETRIES /\ rHist[Len(rHist)] = Failed(k))
         => /\ rpc \in {"r_backoff", "r_call"}
            /\ rpc = "r_call" => rAttempt = Len(rHist) + 1

C20_Witness ==
  /\ rpc = "r_thrown"
  /\ rLabel = "Lookup"
  /\ rHist[1].kind = "TimeoutError"
  /\ rHist[2].kind = "TypeError"

MaxAttempt == 4             \* attempt numbers the backoff is computed for

MaxFound == 4               \* files of a search response
BATCH_SIZE == 2

\* the FilingStubs of the search response, named by their position
StubList(n) == [i \in 1..n |-> i]

RECURSIVE ChunkFrom(_, _, _)
\* for (let i = 0; i < arr.length; i += size) chunks.push(arr.slice(i, i + size))
ChunkFrom(arr, size, i) ==
  IF i >= Len(arr)
    THEN << >>
    ELSE << SubSeq(arr, i + 1, IF i + size < Len(arr) THEN i + size ELSE Len(arr)) >>
           \o ChunkFrom(arr, size, i + size)

ChunkArray_FromOne(arr, size) == ChunkFrom(arr, size, 1)
\* chunkArray(arr, size)
ChunkArray(arr, size) == ChunkFrom(arr, size, 0)

\* const batches = chunkArray(files, BATCH_SIZE)
Batches == ChunkArray(StubList(totalCount), BATCH_SIZE)

SearchFetchOutcomes == {"ok", "notOk", "networkError"}
SearchBodyOutcomes == {"json", "invalid"}
BatchFetchOutcomes == {"ok", "notOk", "networkError"}
BatchBodyOutcomes == {"json", "invalid"}

\* the results of a batch response: one Outcome per file of the group, in
\* order, the non-included ones with the route's reason
BatchResults(g, sts) ==
  [j \in 1..Len(g) |->
     Outcome(g[j], sts[j], IF sts[j] = "included" THEN "none" ELSE "reason")]

CountIn(rs, st) == Cardinality({j \in 1..Len(rs) : rs[j].status = st})

FormInit ==
  /\ RunIdle
  /\ BatchIdle
  /\ RetryIdle
  /\ RestIdle
  /\ fpc = "f_search"
  /\ phase = "searching"
  /\ totalCount = 0
  /\ fi = 1
  /\ allResults = << >>
  /\ runningStats = [processed |-> 0, included |-> 0, skipped |-> 0, errors |-> 0]
  /\ aborted = FALSE
  /\ sent = << >>
  /\ sentAfterAbort = FALSE

notForm == << runState, batchState, retryState, restState >>
fOut == << allResults, runningStats >>
fSent == << sent, sentAfterAbort >>

\* the run ends with setPhase(p)
EndWith(p) ==
  /\ phase' = p
  /\ fpc' = "f_done"

SkipBatch_ErrorsOnly ==
  /\ runningStats' = [runningStats EXCEPT !.errors = @ + Len(Batches[fi])]
  /\ fi' = fi + 1
  /\ fpc' = "f_loop"
  /\ UNCHANGED << phase, allResults >>

\* runningStats.errors += batches[i].length; processed likewise; continue
SkipBatch ==
  /\ runningStats' = [runningStats EXCEPT !.errors = @ + Len(Batches[fi]),
                                          !.processed = @ + Len(Batches[fi])]
  /\ fi' = fi + 1
  /\ fpc' = "f_loop"
  /\ UNCHANGED << phase, allResults >>

\* await fetch('/api/search', { signal }): a rejection, an abort or a response
\* that is not ok ends in the handler's catch
FSearchFetch ==
  /\ fpc = "f_search"
  /\ IF aborted
       THEN EndWith("error")
       ELSE \E o \in SearchFetchOutcomes :
              IF o = "ok"
                THEN fpc' = "f_search_body" /\ UNCHANGED phase
                ELSE EndWith("error")
  /\ UNCHANGED << notForm, totalCount, fi, fOut, aborted, fSent >>

\* searchData = await searchRes.json(); setStats found; no files: complete
FSearchBody ==
  /\ fpc = "f_search_body"
  /\ \E o \in SearchBodyOutcomes :
       IF o = "invalid" \/ aborted
         THEN EndWith("error") /\ UNCHANGED totalCount
         ELSE \E n \in 0..MaxFound :
                /\ totalCount' = n
                /\ IF n = 0
                     THEN EndWith("complete")
                     ELSE phase' = "processing" /\ fpc' = "f_loop"
  /\ UNCHANGED << notForm, fi, fOut, aborted, fSent >>

\* the loop's head finds the signal aborted: setPhase('error')
FCancelled ==
  /\ fpc = "f_loop"
  /\ fi <= Len(Batches)
  /\ aborted
  /\ EndWith("error")
  /\ UNCHANGED << notForm, totalCount, fi, fOut, aborted, fSent >>

\* fetch('/api/process-batch', { body: files: batches[i], signal }) is issued
FIssue ==
  /\ fpc = "f_loop"
  /\ fi <= Len(Batches)
  /\ ~aborted
  /\ sent' = Append(sent, Batches[fi])
  /\ sentAfterAbort' = (sentAfterAbort \/ aborted)
  /\ fpc' = "f_fetch"
  /\ UNCHANGED << notForm, phase, totalCount, fi, fOut, aborted >>

\* the loop is over: setPhase('complete')
FComplete ==
  /\ fpc = "f_loop"
  /\ fi > Len(Batches)
  /\ EndWith("complete")
  /\ UNCHANGED << notForm, totalCount, fi, fOut, aborted, fSent >>

\* the batch fetch settles: AbortError ends the run, another rejection skips
\* the batch, a response goes on to its body
FBatchFetch ==
  /\ fpc = "f_fetch"
  /\ IF aborted
       THEN EndWith("error") /\ UNCHANGED << fi, fOut >>
       ELSE \E o \in BatchFetchOutcomes :
              CASE o = "networkError" -> SkipBatch
                [] o = "notOk" ->
                     fpc' = "f_errbody" /\ UNCHANGED << phase, fi, fOut >>
                [] OTHER ->
                     fpc' = "f_body" /\ UNCHANGED << phase, fi, fOut >>
  /\ UNCHANGED << notForm, totalCount, aborted, fSent >>

\* !batchResponse.ok: the error body is read inside try/catch, then the batch
\* is skipped
FErrBody ==
  /\ fpc = "f_errbody"
  /\ SkipBatch
  /\ UNCHANGED << notForm, totalCount, aborted, fSent >>

\* batchData = await batchResponse.json(): a rejection skips the batch, a
\* value is appended to allResults and added to runningStats
FBatchBody ==
  /\ fpc = "f_body"
  /\ \E o \in BatchBodyOutcomes :
       IF o = "invalid" \/ aborted
         THEN SkipBatch
         ELSE \E sts \in [1..Len(Batches[fi]) -> Statuses] :
                LET batchResults == BatchResults(Batches[fi], sts)
                IN /\ allResults' = allResults \o batchResults
                   /\ runningStats' =
                        [processed |-> runningStats.processed + Len(batchResults),
                         included |-> runningStats.included + CountIn(batchResults, "included"),
                         skipped |-> runningStats.skipped + CountIn(batchResults, "skipped"),
                         errors |-> runningStats.errors + CountIn(batchResults, "error")]
                   /\ fi' = fi + 1
                   /\ fpc' = "f_loop"
                   /\ UNCHANGED phase
  /\ UNCHANGED << notForm, totalCount, aborted, fSent >>

\* handleCancel: abortRef.current?.abort(). The click is handled while
\* handleRunScrape is suspended at one of its awaits; the loop's head and the
\* statements between two awaits run without interruption.
FCancel ==
  /\ fpc \in {"f_search", "f_search_body", "f_fetch", "f_errbody", "f_body"}
  /\ ~aborted
  /\ aborted' = TRUE
  /\ UNCHANGED << notForm, fpc, phase, totalCount, fi, fOut, fSent >>

FormNext ==
  \/ FSearchFetch \/ FSearchBody
  \/ FCancelled \/ FIssue \/ FComplete
  \/ FBatchFetch \/ FErrBody \/ FBatchBody
  \/ FCancel

SpecForm == FormInit /\ [][FormNext]_vars

\* C12: when the phase becomes 'complete', allResults holds one Outcome per
\* file of the search response, in order, each non-included one with a
\* reason. The code breaks this: a batch whose request failed, was not ok or
\* had an invalid body is counted in runningStats but adds no Outcome.
C12_OneOutcomePerStub ==
  phase = "complete" =>
    /\ Len(allResults) = totalCount
    /\ \A i \in 1..Len(allResults) :
         /\ allResults[i].file = i
         /\ allResults[i].status # "included" => allResults[i].reason # "none"

\* C28: the batches are consecutive groups of the file list: none is empty,
\* all but the last hold exactly BATCH_SIZE files, group g holds the files
\* (g-1)*BATCH_SIZE+1 onwards so that the groups in order make up the list;
\* the requests issued so far carry the first groups, one request per group,
\* in group order.
C28_BatchesPartitionInOrder ==
  /\ \A g \in 1..Len(Batches) :
       /\ Len(Batches[g]) >= 1
       /\ Len(Batches[g]) <= BATCH_SIZE
       /\ g < Len(Batches) => Len(Batches[g]) = BATCH_SIZE
       /\ \A j \in 1..Len(Batches[g]) : Batches[g][j] = (g - 1) * BATCH_SIZE + j
  /\ totalCount = 0 => Batches = << >>
  /\ totalCount > 0 =>
       /\ Len(Batches) >= 1
       /\ (Len(Batches) - 1) * BATCH_SIZE + Len(Batches[Len(Batches)]) = totalCount
  /\ Len(sent) <= Len(Batches)
  /\ \A g \in 1..Len(sent) : sent[g] = Batches[g]
  /\ fpc \in {"f_loop"} => Len(sent) = fi - 1
  /\ fpc \in {"f_fetch", "f_errbody", "f_body"} => Len(sent) = fi

C28_Witness ==
  /\ phase = "complete"
  /\ totalCount = 3
  /\ sent = << << 1, 2 >>, << 3 >> >>

(***************************************************************************)
(* splitDateRange(fromStr, toStr): Dates are records of year, month index *)
(* (0..11, as getMonth) and day; one action per iteration of the loop.    *)
(***************************************************************************)
MaxYears == 3               \* calendar years the input dates are drawn from

IsLeap(y) == (y % 4 = 0 /\ y % 100 # 0) \/ y % 400 = 0

\* days of the month with index mi (0..11) of year y
DaysIn(y, mi) ==
  CASE mi = 1 -> IF IsLeap(y) THEN 29 ELSE 28
    [] mi \in {3, 5, 8, 10} -> 30
    [] OTHER -> 31

\* new Date(year, monthIndex, day): a month index of 12 or more runs into the
\* next year, day 0 is the last day of the month before, a day past the end
\* of the month runs into the next month
MakeDate(year, monthIndex, day) ==
  LET y1 == year + (monthIndex \div 12)
      m1 == monthIndex % 12
  IN CASE day = 0 ->
            LET y2 == IF m1 = 0 THEN y1 - 1 ELSE y1
                m2 == IF m1 = 0 THEN 11 ELSE m1 - 1
            IN [y |-> y2, m |-> m2, d |-> DaysIn(y2, m2)]
       [] day > DaysIn(y1, m1) ->
            LET y2 == IF m1 = 11 THEN y1 + 1 ELSE y1
                m2 == IF m1 = 11 THEN 0 ELSE m1 + 1
            IN [y |-> y2, m |-> m2, d |-> day - DaysIn(y1, m1)]
       [] OTHER -> [y |-> y1, m |-> m1, d |-> day]

\* parseDate: const [month, day, year] = dateStr.split('/').map(Number)
parseDate(f) == MakeDate(f[3], f[1] - 1, f[2])

\* String(n).padStart(2, '0')
PadStart2(n) == IF n < 10 THEN "0" \o ToString(n) ELSE ToString(n)

\* formatDate: `${month}/${day}/${year}`
formatDate(date) ==
  PadStart2(date.m + 1) \o "/" \o PadStart2(date.d) \o "/" \o ToString(date.y)

lastDayOfMonth_SameMonth(date) == MakeDate(date.y, date.m, 0)
\* new Date(date.getFullYear(), date.getMonth() + 1, 0)
lastDayOfMonth(date) == MakeDate(date.y, date.m + 1, 0)

\* the order of two Dates (the comparison of their time values)
DateLess(a, b) ==
  \/ a.y < b.y
  \/ a.y = b.y /\ a.m < b.m
  \/ a.y = b.y /\ a.m = b.m /\ a.d < b.d

DateLeq(a, b) == a = b \/ DateLess(a, b)

\* the dates a request can name: the first, tenth, fifteenth and last days of
\* the months of a few years, a leap year among them
InputYears == 2026..(2025 + MaxYears)
InputDates ==
  { f \in (1..12) \X (1..31) \X InputYears :
      f[2] \in {1, 10, 15, DaysIn(f[3], f[1] - 1)} }

DateInit ==
  /\ RunIdle
  /\ BatchIdle
  /\ RetryIdle
  /\ FormIdle
  /\ SearchIdle
  /\ PdfIdle
  /\ LateIdle
  /\ dpc = "d_loop"
  /\ dFrom \in InputDates
  /\ dTo \in InputDates
  /\ currentStart = parseDate(dFrom)
  /\ chunks = << >>
  /\ dSpans = << >>

notDate == << runState, batchState, retryState, formState, searchState, pdfState,
             lateState >>

\* one iteration of while (currentStart <= to)
SplitStep ==
  /\ dpc = "d_loop"
  /\ DateLeq(currentStart, parseDate(dTo))
  /\ LET to == parseDate(dTo)
         monthEnd == lastDayOfMonth(currentStart)
         chunkEnd == IF DateLess(monthEnd, to) THEN monthEnd ELSE to
     IN /\ chunks' = Append(chunks, [from |-> formatDate(currentStart),
                                     to |-> formatDate(chunkEnd)])
        /\ dSpans' = Append(dSpans, [from |-> currentStart, to |-> chunkEnd])
  /\ currentStart' = MakeDate(currentStart.y, currentStart.m + 1, 1)
  /\ UNCHANGED << notDate, dpc, dFrom, dTo >>

\* the loop ends: return chunks
SplitReturn ==
  /\ dpc = "d_loop"
  /\ ~DateLeq(currentStart, parseDate(dTo))
  /\ dpc' = "d_done"
  /\ UNCHANGED << notDate, dFrom, dTo, currentStart, chunks, dSpans >>

DateNext == SplitStep \/ SplitReturn

SpecDates == DateInit /\ [][DateNext]_vars

\* the text MM/DD/YYYY of month mo, day dd and a four-digit year yr
MMDDYYYY(mo, dd, yr) ==
  (IF mo < 10 THEN "0" ELSE "") \o ToString(mo) \o "/"
    \o (IF dd < 10 THEN "0" ELSE "") \o ToString(dd) \o "/" \o ToString(yr)

\* the calendar day after a Date
DayAfter(a) ==
  IF a.d < DaysIn(a.y, a.m)
    THEN [y |-> a.y, m |-> a.m, d |-> a.d + 1]
    ELSE IF a.m = 11
           THEN [y |-> a.y + 1, m |-> 0, d |-> 1]
           ELSE [y |-> a.y, m |-> a.m + 1, d |-> 1]

\* C26: for from <= to, splitDateRange returns at least one chunk; the first
\* starts at from and the last ends at to, as texts; each chunk is the text of
\* a span of days from <= to inside one calendar month; each later chunk
\* starts the day after the one before it ends.
C26_ChunksCoverRange ==
  (dpc = "d_done" /\ (dFrom[3] < dTo[3]
                       \/ (dFrom[3] = dTo[3] /\ dFrom[1] < dTo[1])
                       \/ (dFrom[3] = dTo[3] /\ dFrom[1] = dTo[1] /\ dFrom[2] <= dTo[2])))
  => /\ Len(chunks) >= 1
     /\ Len(dSpans) = Len(chunks)
     /\ chunks[1].from = MMDDYYYY(dFrom[1], dFrom[2], dFrom[3])
     /\ chunks[Len(chunks)].to = MMDDYYYY(dTo[1], dTo[2], dTo[3])
     /\ \A i \in 1..Len(chunks) :
          /\ chunks[i].from = MMDDYYYY(dSpans[i].from.m + 1, dSpans[i].from.d, dSpans[i].from.y)
          /\ chunks[i].to = MMDDYYYY(dSpans[i].to.m + 1, dSpans[i].to.d, dSpans[i].to.y)
          /\ dSpans[i].from.y = dSpans[i].to.y
          /\ dSpans[i].from.m = dSpans[i].to.m
          /\ 1 <= dSpans[i].from.d
          /\ dSpans[i].from.d <= dSpans[i].to.d
          /\ dSpans[i].to.d <= DaysIn(dSpans[i].to.y, dSpans[i].to.m)
     /\ \A i \in 1..(Len(chunks) - 1) : dSpans[i + 1].from = DayAfter(dSpans[i].to)

C26_Witness ==
  /\ dpc = "d_done"
  /\ dFrom = << 1, 15, 2026 >>
  /\ dTo = << 3, 10, 2026 >>
  /\ chunks = << [from |-> "01/15/2026", to |-> "01/31/2026"],
                 [from |-> "02/01/2026", to |-> "02/28/2026"],
                 [from |-> "03/01/2026", to |-> "03/10/2026"] >>

(***************************************************************************)
(* POST /api/search: the loop over the date chunks, with every await of   *)
(* searchAndCollectFiles (form, submit, classification, pagination) and   *)
(* the deduplication of the files collected.                              *)
(***************************************************************************)
MaxChunks == 2              \* dateChunks.length
MaxPages == 2               \* result pages of one chunk search

\* a row of the results table, as extractResultsFromPage returns it
Stub(n, name) == [fileNumber |-> n, fileName |-> name]

\* the rows a results page can hold
RowChoices ==
  { << Stub(1, "a") >>, << Stub(2, "a"), Stub(1, "b") >> }

\* what resultsInfo.match(/Results (\d+) - (\d+) of (\d+)/) can give: no match,
\* or the numbers parsed from the second and third groups
SummaryChoices ==
  { [parsed |-> FALSE, endIdx |-> 0, total |-> 0],
    [parsed |-> TRUE, endIdx |-> 2, total |-> 2],
    [parsed |-> TRUE, endIdx |-> 2, total |-> 4] }

HasMore_UnparsedGoesOn(page) == ~page.parsed \/ page.endIdx < page.total
\* if (match) ... if (endIdx < total)
HasMore(page) == page.parsed /\ page.endIdx < page.total

\* the results pages the site can show; the last page it has offers no more
ResultPages(isLast) ==
  { pg \in [says : {{}}, rows : RowChoices, parsed : BOOLEAN, endIdx : {0, 2},
            total : {0, 2, 4}, link : BOOLEAN] :
      /\ [parsed |-> pg.parsed, endIdx |-> pg.endIdx, total |-> pg.total]
           \in SummaryChoices
      /\ isLast => ~(HasMore(pg) /\ pg.link) }

\* the pages that report no records, or a range of more than a month
MessagePages ==
  { [NoPage EXCEPT !.says = {m}] : m \in {"noRecords", "rangeExceeded"} }

PageClass_RangeFirst(page) ==
  CASE "rangeExceeded" \in page.says -> "empty"
    [] "noRecords" \in page.says -> "rangeError"
    [] OTHER -> "results"
\* the checks of pageText after the submit, in the order of the code
PageClass(page) ==
  CASE "noRecords" \in page.says -> "empty"
    [] "rangeExceeded" \in page.says -> "rangeError"
    [] OTHER -> "results"

RECURSIVE DedupFrom(_, _, _)
\* allFiles.filter: keep f unless seen has f.fileNumber, then add it to seen
DedupFrom(arr, i, seen) ==
  IF i > Len(arr)
    THEN << >>
    ELSE IF arr[i].fileNumber \in seen
           THEN DedupFrom(arr, i + 1, seen)
           ELSE << arr[i] >> \o DedupFrom(arr, i + 1, seen \cup {arr[i].fileNumber})

uniqueFiles_LastSeen(allFiles) ==
  LET K == {i \in 1..Len(allFiles) :
              \A j \in (i + 1)..Len(allFiles) :
                 allFiles[j].fileNumber # allFiles[i].fileNumber}
  IN [k \in 1..Cardinality(K) |->
        allFiles[CHOOSE i \in K : Cardinality({j \in K : j <= i}) = k]]
\* const seen = new Set(); const uniqueFiles = allFiles.filter(...)
uniqueFiles(allFiles) == DedupFrom(allFiles, 1, {})

SConnectOutcomes == {"ok", "fail"}
NavOutcomes == {"ok", "navFail", "noButton"}
SubmitOutcomes == {"ok", "fail"}
ExtractOutcomes == {"ok", "fail"}
NextClickOutcomes == {"ok", "fail"}

SearchInit ==
  /\ RunIdle
  /\ BatchIdle
  /\ RetryIdle
  /\ FormIdle
  /\ DateIdle
  /\ PdfIdle
  /\ LateIdle
  /\ spc = "s_req"
  /\ sN \in 0..MaxChunks
  /\ sc = 1
  /\ sAttempt = 1
  /\ sAll = << >>
  /\ sLocal = << >>
  /\ sShown = NoPage
  /\ sClass = "none"
  /\ sVisited = << >>
  /\ sClicks = 0
  /\ sSearched = << >>
  /\ sErr = "none"
  /\ sResp = NoResp

notSearch == << runState, batchState, retryState, formState, dateState, pdfState,
               lateState >>
sCall == << sLocal, sShown, sClass, sVisited, sClicks >>
sLoop == << sN, sc, sAttempt, sAll, sSearched >>

\* an await of searchAndCollectFiles throws msg
SThrow(msg) ==
  /\ sErr' = msg
  /\ spc' = "s_caught"

\* request.json() and the checks of the fields and of the date format
SValidate ==
  /\ spc = "s_req"
  /\ \E valid \in BOOLEAN :
       IF valid
         THEN spc' = "s_connect" /\ UNCHANGED sResp
         ELSE /\ spc' = "s_finally"
              /\ sResp' = [NoResp EXCEPT !.status = 400, !.error = "bad request"]
  /\ UNCHANGED << notSearch, sLoop, sCall, sErr >>

\* const connection = await connectBrowser()
SConnect ==
  /\ spc = "s_connect"
  /\ \E o \in SConnectOutcomes :
       IF o = "ok"
         THEN spc' = "s_loop" /\ UNCHANGED sErr
         ELSE spc' = "s_catch" /\ sErr' = "connectBrowser failed"
  /\ UNCHANGED << notSearch, sLoop, sCall, sResp >>

\* for (const chunk of dateChunks): withRetry is called for the next chunk
SChunkStart ==
  /\ spc = "s_loop"
  /\ sc <= sN
  /\ sAttempt' = 1
  /\ spc' = "s_nav"
  /\ UNCHANGED << notSearch, sN, sc, sAll, sSearched, sCall, sErr, sResp >>

SNav_KeepsRows ==
  /\ spc = "s_nav"
  /\ sSearched' = Append(sSearched, sc)
  /\ sShown' = NoPage
  /\ sClass' = "none"
  /\ sVisited' = << >>
  /\ sClicks' = 0
  /\ \E o \in NavOutcomes :
       CASE o = "ok" -> spc' = "s_submit" /\ UNCHANGED sErr
         [] o = "navFail" ->
              SThrow(RetryMessage("Navigate to File Search", "page.goto failed"))
         [] OTHER ->
              SThrow("Could not find the File Information Search button (#FileSearchSubmit2)")
  /\ UNCHANGED << notSearch, sN, sc, sAttempt, sAll, sLocal, sResp >>
\* searchAndCollectFiles starts: navigation, court, proceeding, dates, and
\* the query of the search button
SNav ==
  /\ spc = "s_nav"
  /\ sSearched' = Append(sSearched, sc)
  /\ sLocal' = << >>
  /\ sShown' = NoPage
  /\ sClass' = "none"
  /\ sVisited' = << >>
  /\ sClicks' = 0
  /\ \E o \in NavOutcomes :
       CASE o = "ok" -> spc' = "s_submit" /\ UNCHANGED sErr
         [] o = "navFail" ->
              SThrow(RetryMessage("Navigate to File Search", "page.goto failed"))
         [] OTHER ->
              SThrow("Could not find the File Information Search button (#FileSearchSubmit2)")
  /\ UNCHANGED << notSearch, sN, sc, sAttempt, sAll, sResp >>

\* searchBtn.click(), waitForLoadState, delay(1500): the result page is shown
SSubmit ==
  /\ spc = "s_submit"
  /\ \E o \in SubmitOutcomes :
       IF o = "ok"
         THEN /\ sShown' \in ResultPages(MaxPages = 1) \cup MessagePages
              /\ spc' = "s_classify"
              /\ UNCHANGED sErr
         ELSE SThrow("click failed") /\ UNCHANGED sShown
  /\ UNCHANGED << notSearch, sLoop, sLocal, sClass, sVisited, sClicks, sResp >>

\* pageText = await page.textContent('body') and the two checks on it
SClassify ==
  /\ spc = "s_classify"
  /\ sClass' = PageClass(sShown)
  /\ CASE PageClass(sShown) = "empty" ->
            /\ sAll' = sAll \o << >>
            /\ spc' = "s_delay"
            /\ UNCHANGED sErr
       [] PageClass(sShown) = "rangeError" ->
            /\ SThrow("Date range exceeds one calendar month")
            /\ UNCHANGED sAll
       [] OTHER ->
            /\ spc' = "s_extract"
            /\ UNCHANGED << sAll, sErr >>
  /\ UNCHANGED << notSearch, sN, sc, sAttempt, sSearched, sLocal, sShown,
                  sVisited, sClicks, sResp >>

SExtract_Twice ==
  /\ spc = "s_extract"
  /\ sLocal' = sLocal \o sShown.rows \o sShown.rows
  /\ sVisited' = Append(sVisited, sShown.rows)
  /\ spc' = "s_summary"
  /\ UNCHANGED << notSearch, sLoop, sShown, sClass, sClicks, sErr, sResp >>
\* pageResults = await extractResultsFromPage(page); allFiles.push(...)
SExtract ==
  /\ spc = "s_extract"
  /\ \E o \in ExtractOutcomes :
       IF o = "ok"
         THEN /\ sLocal' = sLocal \o sShown.rows
              /\ sVisited' = Append(sVisited, sShown.rows)
              /\ spc' = "s_summary"
              /\ UNCHANGED sErr
         ELSE SThrow("page.evaluate failed") /\ UNCHANGED << sLocal, sVisited >>
  /\ UNCHANGED << notSearch, sLoop, sShown, sClass, sClicks, sResp >>

\* the summary is read and matched; with more results the next link is
\* queried; without a click the loop ends and the call returns allFiles,
\* which the route pushes to its own
SSummary ==
  /\ spc = "s_summary"
  /\ IF HasMore(sShown) /\ sShown.link
       THEN spc' = "s_click" /\ UNCHANGED sAll
       ELSE spc' = "s_delay" /\ sAll' = sAll \o sLocal
  /\ UNCHANGED << notSearch, sN, sc, sAttempt, sSearched, sCall, sErr, sResp >>

\* nextLink.click(), waitForLoadState, delay(1500): the next page is shown
SNextClick ==
  /\ spc = "s_click"
  /\ \E o \in NextClickOutcomes :
       IF o = "ok"
         THEN /\ sClicks' = sClicks + 1
              /\ sShown' \in ResultPages(Len(sVisited) + 1 >= MaxPages)
              /\ spc' = "s_extract"
              /\ UNCHANGED sErr
         ELSE SThrow("next click failed") /\ UNCHANGED << sClicks, sShown >>
  /\ UNCHANGED << notSearch, sLoop, sLocal, sClass, sVisited, sResp >>

SCaught_SkipsChunk ==
  /\ spc = "s_caught"
  /\ IF LastAttempt(sAttempt)
       THEN /\ sc' = sc + 1
            /\ spc' = "s_loop"
            /\ UNCHANGED sAttempt
       ELSE /\ sAttempt' = sAttempt + 1
            /\ spc' = "s_nav"
            /\ UNCHANGED sc
  /\ UNCHANGED << notSearch, sN, sAll, sSearched, sCall, sErr, sResp >>
\* withRetry's catch around searchAndCollectFiles
SCaught ==
  /\ spc = "s_caught"
  /\ IF LastAttempt(sAttempt)
       THEN /\ sErr' = RetryMessage("Search", sErr)
            /\ spc' = "s_catch"
            /\ UNCHANGED sAttempt
       ELSE /\ sAttempt' = sAttempt + 1
            /\ spc' = "s_nav"
            /\ UNCHANGED sErr
  /\ UNCHANGED << notSearch, sN, sc, sAll, sSearched, sCall, sResp >>

\* await delay(500), the end of the loop's body
SDelay ==
  /\ spc = "s_delay"
  /\ sc' = sc + 1
  /\ spc' = "s_loop"
  /\ UNCHANGED << notSearch, sN, sAttempt, sAll, sSearched, sCall, sErr, sResp >>

\* the loop is over: deduplicate and respond with files and totalCount
SRespond ==
  /\ spc = "s_loop"
  /\ sc > sN
  /\ sResp' = [status |-> 200, hasFiles |-> TRUE, files |-> uniqueFiles(sAll),
               totalCount |-> Len(uniqueFiles(sAll)), error |-> "none"]
  /\ spc' = "s_finally"
  /\ UNCHANGED << notSearch, sLoop, sCall, sErr >>

\* catch (err): logError and the 500 response with err.message
SCatch ==
  /\ spc = "s_catch"
  /\ sResp' = [NoResp EXCEPT !.status = 500, !.error = sErr]
  /\ spc' = "s_finally"
  /\ UNCHANGED << notSearch, sLoop, sCall, sErr >>

\* finally: the browser is closed if the route holds one
SFinally ==
  /\ spc = "s_finally"
  /\ spc' = "s_done"
  /\ UNCHANGED << notSearch, sLoop, sCall, sErr, sResp >>

SearchNext ==
  \/ SValidate \/ SConnect \/ SChunkStart \/ SNav \/ SSubmit \/ SClassify
  \/ SExtract \/ SSummary \/ SNextClick \/ SCaught \/ SDelay
  \/ SRespond \/ SCatch \/ SFinally

SpecSearch == SearchInit /\ [][SearchNext]_vars

RECURSIVE Flatten(_)
\* the rows of a sequence of pages, in page order
Flatten(pages) ==
  IF pages = << >> THEN << >> ELSE Head(pages) \o Flatten(Tail(pages))

\* the first position of fileNumber n in a list of stubs
FirstSeen(list, n) ==
  CHOOSE j \in 1..Len(list) :
    /\ list[j].fileNumber = n
    /\ \A k \in 1..(j - 1) : list[k].fileNumber # n

C23_UnparsedSummaryStops ==
  /\ [](spc = "s_summary" =>
          /\ sVisited # << >>
          /\ sVisited[Len(sVisited)] = sShown.rows
          /\ sLocal = Flatten(sVisited))
  /\ [][(spc = "s_summary" /\ ~sShown.parsed)
          => /\ spc' = "s_delay"
             /\ sAll' = sAll \o sLocal
             /\ sClicks' = sClicks
             /\ sShown' = sShown]_vars

C23_Witness ==
  /\ spc = "s_delay"
  /\ sClass = "results"
  /\ ~sShown.parsed
  /\ sShown.link
  /\ Len(sVisited) = 2
  /\ sClicks = 1
  /\ sAll = Flatten(sVisited)
  /\ sAll # << >>

\* C24: from the reading of the summary the call goes on to the next-page
\* click exactly when the summary was parsed with the last index shown below
\* the total and a next link exists, and returns otherwise; a click happens
\* nowhere else; every page shown is extracted once, before its summary is
\* read, and the rows collected are those of the pages visited, in page order.
C24_PaginationFollowsSummary ==
  /\ [][spc = "s_summary" /\ spc' # "s_summary"
          => /\ spc' \in {"s_click", "s_delay"}
             /\ spc' = "s_click" <=>
                  (sShown.parsed /\ sShown.endIdx < sShown.total /\ sShown.link)]_vars
  /\ [][sClicks' # sClicks
          => \/ spc = "s_nav" /\ sClicks' = 0
             \/ spc = "s_click" /\ sClicks' = sClicks + 1]_vars
  /\ [](sLocal = Flatten(sVisited))
  /\ [](spc = "s_extract" => Len(sVisited) = sClicks)
  /\ [](spc \in {"s_summary", "s_click"} => Len(sVisited) = sClicks + 1)

C24_Witness ==
  /\ spc = "s_delay"
  /\ sClicks = 1
  /\ sVisited = << << Stub(1, "a") >>, << Stub(2, "a"), Stub(1, "b") >> >>
  /\ sLocal = << Stub(1, "a"), Stub(2, "a"), Stub(1, "b") >>
  /\ sShown.parsed
  /\ sShown.endIdx = sShown.total

\* C25: a chunk whose last attempt failed, or a failed connection, takes the
\* route to its catch: the response is 500 with the error's message and no
\* file list, whatever earlier chunks collected; no chunk beyond the failed
\* one is ever searched, and nothing is searched once a response exists; a
\* 200 response means every chunk was searched to its end.
C25_SearchFailureIsOneError ==
  /\ [][(spc = "s_caught" /\ sAttempt = MAX_RETRIES /\ spc' # spc)
          => /\ spc' = "s_catch"
             /\ sErr' = "Search failed after " \o ToString(MAX_RETRIES)
                          \o " attempts: " \o sErr]_vars
  /\ [][(spc = "s_catch" /\ spc' # spc)
          => sResp' = [NoResp EXCEPT !.status = 500, !.error = sErr]]_vars
  /\ [](sResp.status = 500 =>
          /\ ~sResp.hasFiles
          /\ sResp.files = << >>
          /\ sResp.error # "none"
          /\ \A k \in 1..Len(sSearched) : sSearched[k] <= sc)
  /\ [](spc \in {"s_catch", "s_caught"} =>
          \A k \in 1..Len(sSearched) : sSearched[k] <= sc)
  /\ [](sResp.status = 200 => sc = sN + 1)
  /\ [][sResp.status # 0 => sSearched' = sSearched]_vars

C25_Witness ==
  /\ sResp.status = 500
  /\ sN = 2
  /\ sc = 2
  /\ sAll # << >>
  /\ sSearched = << 1, 2, 2 >>
  /\ sResp.error = RetryMessage("Search", "next click failed")

\* C27: the files of a 200 response hold every fileNumber collected exactly
\* once; each is the first stub collected with its fileNumber, and the files
\* are in the order in which their fileNumbers were first collected;
\* totalCount is their number.
C27_FirstSeenOnce ==
  sResp.status = 200 =>
    /\ sResp.hasFiles
    /\ sResp.totalCount = Len(sResp.files)
    /\ {sResp.files[i].fileNumber : i \in 1..Len(sResp.files)}
         = {sAll[j].fileNumber : j \in 1..Len(sAll)}
    /\ \A i, j \in 1..Len(sResp.files) :
         /\ i # j => sResp.files[i].fileNumber # sResp.files[j].fileNumber
         /\ i < j => FirstSeen(sAll, sResp.files[i].fileNumber)
                       < FirstSeen(sAll, sResp.files[j].fileNumber)
    /\ \A i \in 1..Len(sResp.files) :
         sResp.files[i] = sAll[FirstSeen(sAll, sResp.files[i].fileNumber)]

C27_Witness ==
  /\ sResp.status = 200
  /\ sAll = << Stub(2, "a"), Stub(1, "b"), Stub(1, "a"), Stub(2, "a"), Stub(1, "b") >>
  /\ sResp.files = << Stub(2, "a"), Stub(1, "b") >>
  /\ sResp.totalCount = 2

(***************************************************************************)
(* downloadAndParsePDF and tryInterceptPDF: the viewer page, the two ways *)
(* to the PDF's bytes, the check of the buffer, the parse and the close   *)
(* of the page; the response handler of tryInterceptPDF runs once for     *)
(* every response, and each run assigns the buffer when its body arrives. *)
(***************************************************************************)
MaxResponses == 3           \* responses observed between reload and return

\* the body of response n, of len bytes
Body(n, len) == [of |-> n, len |-> len]

\* the lengths a body can have: empty or not
BodyLens == {0, 1}

\* a response as the handler looks at it
Responses == [pdfType : BOOLEAN, pdfUrl : BOOLEAN]

\* contentType.includes('pdf') || response.url().includes('.pdf')
Matches(resp) == resp.pdfType \/ resp.pdfUrl

Unavailable_NullOnly(buf) == buf.of = 0
\* !pdfBuffer || pdfBuffer.length === 0
Unavailable(buf) == buf.of = 0 \/ buf.len = 0

NewPageResults == {"ok", "fail"}
ViewerGotoOutcomes == {"ok", "fail"}
EvaluateOutcomes == {"url", "null", "fail"}
DirectFailures == {"page.goto failed", "response is null", "response.body failed"}
ReloadOutcomes == {"ok", "fail"}
ParseOutcomes == {"ok", "fail"}
CloseOutcomes == {"ok", "fail"}

PdfInit ==
  /\ RunIdle
  /\ BatchIdle
  /\ RetryIdle
  /\ FormIdle
  /\ DateIdle
  /\ SearchIdle
  /\ LateIdle
  /\ ppc = "p_new"
  /\ pTried = << >>
  /\ pdfDirectUrl = "unset"
  /\ pBuf = NullBuf
  /\ pResult = NoResult
  /\ pOpen = FALSE
  /\ iSeen = << >>
  /\ iPending = {}
  /\ iBuf = NullBuf

notPdf == << runState, batchState, retryState, formState, dateState, searchState,
            lateState >>
iState == << iSeen, iPending, iBuf >>

\* a throw inside the try block: the finally runs next
PThrow(msg) ==
  /\ pResult' = [kind |-> "error", of |-> 0, msg |-> msg]
  /\ ppc' = "p_finally"

\* const pdfPage = await context.newPage(), before the try
DNewPage ==
  /\ ppc = "p_new"
  /\ \E o \in NewPageResults :
       IF o = "ok"
         THEN pOpen' = TRUE /\ ppc' = "p_goto" /\ UNCHANGED pResult
         ELSE /\ pResult' = [kind |-> "error", of |-> 0, msg |-> "newPage failed"]
              /\ ppc' = "p_done"
              /\ UNCHANGED pOpen
  /\ UNCHANGED << notPdf, pTried, pdfDirectUrl, pBuf, iState >>

\* pdfPage.goto(pdfViewerUrl) and the wait of 3 s
DViewerGoto ==
  /\ ppc = "p_goto"
  /\ \E o \in ViewerGotoOutcomes :
       IF o = "ok"
         THEN ppc' = "p_eval" /\ UNCHANGED pResult
         ELSE PThrow("page.goto failed")
  /\ UNCHANGED << notPdf, pTried, pdfDirectUrl, pBuf, pOpen, iState >>

\* pdfDirectUrl = await pdfPage.evaluate(...): embed, iframe, object, link
DEvaluate ==
  /\ ppc = "p_eval"
  /\ pTried' = Append(pTried, "embedded")
  /\ \E o \in EvaluateOutcomes :
       CASE o = "url" ->
              pdfDirectUrl' = "url" /\ ppc' = "p_direct" /\ UNCHANGED pResult
         [] o = "null" ->
              pdfDirectUrl' = "null" /\ ppc' = "p_intercept" /\ UNCHANGED pResult
         [] OTHER ->
              PThrow("page.evaluate failed") /\ UNCHANGED pdfDirectUrl
  /\ UNCHANGED << notPdf, pBuf, pOpen, iState >>

\* response = await pdfPage.goto(pdfDirectUrl); pdfBuffer = await response.body()
DDirect ==
  /\ ppc = "p_direct"
  /\ \/ \E msg \in DirectFailures : PThrow(msg) /\ UNCHANGED pBuf
     \/ \E len \in BodyLens :
          /\ pBuf' = Body(1, len)
          /\ ppc' = "p_check"
          /\ UNCHANGED pResult
  /\ UNCHANGED << notPdf, pTried, pdfDirectUrl, pOpen, iState >>

\* tryInterceptPDF is called: pdfBuffer = null, pdfPage.on('response', ...),
\* and pdfPage.reload is issued
InterceptStart ==
  /\ ppc = "p_intercept"
  /\ pTried' = Append(pTried, "intercept")
  /\ iBuf' = NullBuf
  /\ ppc' = "p_reload"
  /\ UNCHANGED << notPdf, pdfDirectUrl, pBuf, pResult, pOpen, iSeen, iPending >>

\* the handler runs for a response; if it matches, response.body() is awaited
ResponseSeen ==
  /\ ppc \in {"p_reload", "p_wait"}
  /\ Len(iSeen) < MaxResponses
  /\ \E r \in Responses :
       /\ iSeen' = Append(iSeen, r)
       /\ iPending' = IF Matches(r) THEN iPending \cup {Len(iSeen) + 1} ELSE iPending
  /\ UNCHANGED << notPdf, ppc, pTried, pdfDirectUrl, pBuf, pResult, pOpen, iBuf >>

\* an awaited body arrives: pdfBuffer = await response.body()
BodyResolves ==
  /\ pOpen
  /\ \E n \in iPending :
       /\ iPending' = iPending \ {n}
       /\ \E len \in BodyLens : iBuf' = Body(n, len)
  /\ UNCHANGED << notPdf, ppc, pTried, pdfDirectUrl, pBuf, pResult, pOpen, iSeen >>

\* an awaited body is not available: catch {}
BodyRejects ==
  /\ \E n \in iPending : iPending' = iPending \ {n}
  /\ UNCHANGED << notPdf, ppc, pTried, pdfDirectUrl, pBuf, pResult, pOpen, iSeen, iBuf >>

\* await pdfPage.reload({ waitUntil: 'load' }) ends
ReloadDone ==
  /\ ppc = "p_reload"
  /\ \E o \in ReloadOutcomes :
       IF o = "ok"
         THEN ppc' = "p_wait" /\ UNCHANGED pResult
         ELSE PThrow("page.reload failed")
  /\ UNCHANGED << notPdf, pTried, pdfDirectUrl, pBuf, pOpen, iState >>

\* the wait of 3 s is over: return pdfBuffer, assigned to the caller's
InterceptReturn ==
  /\ ppc = "p_wait"
  /\ pBuf' = iBuf
  /\ ppc' = "p_check"
  /\ UNCHANGED << notPdf, pTried, pdfDirectUrl, pResult, pOpen, iState >>

\* if (!pdfBuffer || pdfBuffer.length === 0) throw ...
DCheck ==
  /\ ppc = "p_check"
  /\ IF Unavailable(pBuf)
       THEN PThrow("Could not download PDF content")
       ELSE ppc' = "p_parse" /\ UNCHANGED pResult
  /\ UNCHANGED << notPdf, pTried, pdfDirectUrl, pBuf, pOpen, iState >>

\* data = await pdfParse(pdfBuffer); return data.text
DParse ==
  /\ ppc = "p_parse"
  /\ \E o \in ParseOutcomes :
       IF o = "ok"
         THEN /\ pResult' = [kind |-> "text", of |-> pBuf.of, msg |-> "none"]
              /\ ppc' = "p_finally"
         ELSE PThrow("pdfParse failed")
  /\ UNCHANGED << notPdf, pTried, pdfDirectUrl, pBuf, pOpen, iState >>

\* finally { await pdfPage.close() }: a throw of close replaces the outcome
DFinally ==
  /\ ppc = "p_finally"
  /\ ppc' = "p_done"
  /\ \E o \in CloseOutcomes :
       IF o = "ok"
         THEN pOpen' = FALSE /\ UNCHANGED pResult
         ELSE /\ pResult' = [kind |-> "error", of |-> 0, msg |-> "page.close failed"]
              /\ UNCHANGED pOpen
  /\ UNCHANGED << notPdf, pTried, pdfDirectUrl, pBuf, iState >>

PdfNext ==
  \/ DNewPage \/ DViewerGoto \/ DEvaluate \/ DDirect \/ InterceptStart
  \/ ResponseSeen \/ BodyResolves \/ BodyRejects \/ ReloadDone
  \/ InterceptReturn \/ DCheck \/ DParse \/ DFinally

SpecPdf == PdfInit /\ [][PdfNext]_vars

\* the first response observed that matches, 0 if none does
FirstMatching(seen) ==
  IF \E k \in 1..Len(seen) : Matches(seen[k])
    THEN CHOOSE k \in 1..Len(seen) :
           Matches(seen[k]) /\ \A j \in 1..(k - 1) : ~Matches(seen[j])
    ELSE 0

\* C29: the embedded source is looked for first; the PDF is fetched from it
\* only when a URL was found and interception starts only when none was; a
\* buffer that is missing or empty at the check makes the call throw 'Could
\* not download PDF content'; text is returned only for a buffer with bytes,
\* and a call that threw never returns text.
C29_StrategiesInOrder ==
  /\ [](pTried \in {<< >>, << "embedded" >>, << "embedded", "intercept" >>})
  /\ [](ppc = "p_direct" => pdfDirectUrl = "url" /\ pTried = << "embedded" >>)
  /\ []("intercept" \in {pTried[k] : k \in 1..Len(pTried)} => pdfDirectUrl = "null")
  /\ [](ppc \in {"p_intercept", "p_reload", "p_wait"} => pdfDirectUrl = "null")
  /\ [][(ppc = "p_check" /\ (pBuf.of = 0 \/ pBuf.len = 0) /\ ppc' # ppc)
          => /\ ppc' = "p_finally"
             /\ pResult' = [kind |-> "error", of |-> 0,
                            msg |-> "Could not download PDF content"]]_vars
  /\ [](pResult.kind = "text" =>
          pBuf.of # 0 /\ pBuf.len > 0 /\ pResult.of = pBuf.of)
  /\ [][pResult.kind = "error" => pResult'.kind = "error"]_vars

C29_Witness ==
  /\ ppc = "p_done"
  /\ pTried = << "embedded", "intercept" >>
  /\ pBuf.of # 0
  /\ pBuf.len = 0
  /\ pResult = [kind |-> "error", of |-> 0, msg |-> "Could not download PDF content"]
  /\ ~pOpen

\* C30: a buffer that holds a body is not assigned again, and the content
\* interception returns is the body of the first matching response observed.
C30_FirstMatchingBodyKept ==
  /\ [][iBuf.of # 0 => iBuf' = iBuf]_vars
  /\ [](ppc \in {"p_check", "p_parse", "p_finally", "p_done"}
          /\ "intercept" \in {pTried[k] : k \in 1..Len(pTried)}
          /\ pBuf.of # 0
          => pBuf.of = FirstMatching(iSeen))

(***************************************************************************)
(* lookupFile and the batch route's handling of what it returns: the      *)
(* file search, the File History page, the parties, the metadata and the  *)
(* PROBATE PETITION link, then openProbatePetitionPDF or the download.    *)
(***************************************************************************)
MaxLookups == 2             \* files.length

BASE_URL == "https://websurrogates.nycourts.gov"

\* what findProbatePetitionLink and openProbatePetitionPDF give without a URL
NoUrl == "null"

\* the PROBATE PETITION link of a page: none, one without href, one with a
\* relative href, one with an href that starts with http
LinkKinds == {"absent", "noHref", "relative", "absolute"}

\* link.getAttribute('href')
Href(link) ==
  CASE link = "relative" -> "/File/Document/1"
    [] link = "absolute" -> "https://iapps.courts.state.ny.us/doc/1"
    [] OTHER -> ""

\* the pages the site can show after the file search
FilePages ==
  [history : BOOLEAN, parties : {<< >>, << "decedent" >>},
   metadata : {{}, {"fileDate", "judge"}}, link : LinkKinds]

findProbatePetitionLink_AlwaysUrl(pg) == BASE_URL \o Href(pg.link)
\* findProbatePetitionLink: null without a link or an href, the href if it
\* starts with http, BASE_URL + href otherwise
findProbatePetitionLink(pg) ==
  CASE pg.link = "absent" -> NoUrl
    [] pg.link = "noHref" -> NoUrl
    [] pg.link = "absolute" -> Href(pg.link)
    [] OTHER -> BASE_URL \o Href(pg.link)

FileSearchFailures ==
  {RetryMessage("Navigate", "page.goto failed"),
   "waitForSelector timed out",
   "Could not find File Number Search button (#FileSearchSubmit)",
   "click failed"}
FileBtnOutcomes == {"noBtn", "clicked", "clickFail"}
PageEvaluateOutcomes == {"ok", "fail"}
LinkQueryOutcomes == {"ok", "fail"}
NewTabOutcomes == {"url", "timeout"}
DownloadOutcomes == {"included", "skipped", "error"}

LookInit ==
  /\ RunIdle
  /\ BatchIdle
  /\ RetryIdle
  /\ FormIdle
  /\ DateIdle
  /\ SearchIdle
  /\ PdfIdle
  /\ AmountIdle
  /\ ParseIdle
  /\ LogIdle
  /\ lpc = "l_loop"
  /\ lN \in 1..MaxLookups
  /\ li = 1
  /\ lAttempt = 1
  /\ lPage = NoFilePage
  /\ lRet = NoRet
  /\ lResults = << >>
  /\ lStats = [included |-> 0, skipped |-> 0, errors |-> 0]
  /\ lErr = "none"

notLook == << runState, batchState, retryState, formState, dateState, searchState,
             pdfState, amountState, parseState, logState >>
lOut == << lResults, lStats >>

\* an await of lookupFile throws msg: withRetry's catch runs next
LThrow(msg) ==
  /\ lErr' = msg
  /\ lpc' = "l_caught"

\* results.push({...}) followed by the counter's increment
LRecord(st, rsn) ==
  /\ lResults' = Append(lResults, Outcome(li, st, rsn))
  /\ lStats' = Bump(lStats, st)

\* for (const file of files): withRetry(() => lookupFile(...)) is called
LFileStart ==
  /\ lpc = "l_loop"
  /\ li <= lN
  /\ lAttempt' = 1
  /\ lRet' = NoRet
  /\ lpc' = "l_nav"
  /\ UNCHANGED << notLook, lN, li, lPage, lOut, lErr >>

\* lookupFile: navigation, court and file number, the search button, its click
LFileSearch ==
  /\ lpc = "l_nav"
  /\ \/ \E msg \in FileSearchFailures : LThrow(msg) /\ UNCHANGED lPage
     \/ /\ lPage' \in FilePages
        /\ lpc' = "l_landed"
        /\ UNCHANGED lErr
  /\ UNCHANGED << notLook, lN, li, lAttempt, lRet, lOut >>

\* if (!currentUrl.includes('FileHistory')): the file's button, if any, is clicked
LFileBtn ==
  /\ lpc = "l_landed"
  /\ IF lPage.history
       THEN lpc' = "l_extract" /\ UNCHANGED << lPage, lErr >>
       ELSE \E o \in FileBtnOutcomes :
              CASE o = "noBtn" -> lpc' = "l_extract" /\ UNCHANGED << lPage, lErr >>
                [] o = "clicked" ->
                     /\ lPage' \in FilePages
                     /\ lpc' = "l_extract"
                     /\ UNCHANGED lErr
                [] OTHER -> LThrow("click failed") /\ UNCHANGED lPage
  /\ UNCHANGED << notLook, lN, li, lAttempt, lRet, lOut >>

\* parties = await extractParties(page); metadata = await extractFileMetadata(page)
LExtract ==
  /\ lpc = "l_extract"
  /\ \E o \in PageEvaluateOutcomes :
       IF o = "ok"
         THEN /\ lRet' = [lRet EXCEPT !.parties = lPage.parties,
                                      !.metadata = lPage.metadata]
              /\ lpc' = "l_link"
              /\ UNCHANGED lErr
         ELSE LThrow("page.evaluate failed") /\ UNCHANGED lRet
  /\ UNCHANGED << notLook, lN, li, lAttempt, lPage, lOut >>

\* pdfUrl = await findProbatePetitionLink(page); return { parties, pdfUrl, metadata }
LFindLink ==
  /\ lpc = "l_link"
  /\ \E o \in LinkQueryOutcomes :
       IF o = "ok"
         THEN /\ lRet' = [lRet EXCEPT !.returned = TRUE,
                                      !.pdfUrl = findProbatePetitionLink(lPage)]
              /\ lpc' = "l_returned"
              /\ UNCHANGED lErr
         ELSE LThrow("page.$ failed") /\ UNCHANGED lRet
  /\ UNCHANGED << notLook, lN, li, lAttempt, lPage, lOut >>

\* let pdfViewerUrl = pdfUrl; if (!pdfViewerUrl) openProbatePetitionPDF is called
LGotResult ==
  /\ lpc = "l_returned"
  /\ lpc' = IF lRet.pdfUrl = NoUrl THEN "l_tab" ELSE "l_pdf"
  /\ UNCHANGED << notLook, lN, li, lAttempt, lPage, lRet, lOut, lErr >>

\* openProbatePetitionPDF: null without a link, else the URL of the new tab;
\* if (!pdfViewerUrl) the route records 'No PDF available' and continues
LOpenTab ==
  /\ lpc = "l_tab"
  /\ IF lPage.link = "absent"
       THEN /\ LRecord("error", "No PDF available")
            /\ li' = li + 1
            /\ lpc' = "l_loop"
            /\ UNCHANGED lErr
       ELSE \E o \in NewTabOutcomes :
              IF o = "url"
                THEN lpc' = "l_pdf" /\ UNCHANGED << li, lOut, lErr >>
                ELSE /\ lErr' = "waitForEvent timed out"
                     /\ lpc' = "l_catch_file"
                     /\ UNCHANGED << li, lOut >>
  /\ UNCHANGED << notLook, lN, lAttempt, lPage, lRet >>

\* the download, the parse and the threshold: the file's Outcome is recorded
LDownload ==
  /\ lpc = "l_pdf"
  /\ \E st \in DownloadOutcomes :
       LRecord(st, IF st = "included" THEN "none" ELSE "downstream")
  /\ li' = li + 1
  /\ lpc' = "l_loop"
  /\ UNCHANGED << notLook, lN, lAttempt, lPage, lRet, lErr >>

\* withRetry's catch around lookupFile
LCaught ==
  /\ lpc = "l_caught"
  /\ IF LastAttempt(lAttempt)
       THEN /\ lErr' = RetryMessage("Lookup", lErr)
            /\ lpc' = "l_catch_file"
            /\ UNCHANGED lAttempt
       ELSE /\ lAttempt' = lAttempt + 1
            /\ lpc' = "l_nav"
            /\ UNCHANGED lErr
  /\ UNCHANGED << notLook, lN, li, lPage, lRet, lOut >>

\* catch (fileErr): the error Outcome of the file, then the next file
LCatchFile ==
  /\ lpc = "l_catch_file"
  /\ LRecord("error", lErr)
  /\ li' = li + 1
  /\ lpc' = "l_loop"
  /\ UNCHANGED << notLook, lN, lAttempt, lPage, lRet, lErr >>

\* the loop is over: the route responds with results and batchStats
LRespond ==
  /\ lpc = "l_loop"
  /\ li > lN
  /\ lpc' = "l_done"
  /\ UNCHANGED << notLook, lN, li, lAttempt, lPage, lRet, lOut, lErr >>

LookNext ==
  \/ LFileStart \/ LFileSearch \/ LFileBtn \/ LExtract \/ LFindLink
  \/ LGotResult \/ LOpenTab \/ LDownload \/ LCaught \/ LCatchFile \/ LRespond

SpecLookup == LookInit /\ [][LookNext]_vars

\* C31: with no PROBATE PETITION link on the page lookupFile's last step
\* throws only if the query itself fails, and otherwise returns with a null
\* pdfUrl and the page's parties and metadata; the route then records the
\* file's 'No PDF available' error, counts it and goes on to the next file;
\* the route responds with one Outcome for every file.
C31_MissingLinkIsAnOutcome ==
  /\ [][(lpc = "l_link" /\ lPage.link = "absent" /\ lpc' # lpc)
          => \/ lpc' = "l_caught" /\ lErr' = "page.$ failed"
             \/ /\ lpc' = "l_returned"
                /\ lRet' = [returned |-> TRUE, parties |-> lPage.parties,
                            metadata |-> lPage.metadata, pdfUrl |-> NoUrl]]_vars
  /\ [](lpc = "l_returned" /\ lPage.link = "absent" =>
          /\ lRet.pdfUrl = NoUrl
          /\ lRet.parties = lPage.parties
          /\ lRet.metadata = lPage.metadata)
  /\ [][(lpc = "l_tab" /\ lPage.link = "absent" /\ lpc' # lpc)
          => /\ lResults' = Append(lResults, Outcome(li, "error", "No PDF available"))
             /\ lStats' = [lStats EXCEPT !.errors = @ + 1]
             /\ li' = li + 1
             /\ lpc' = "l_loop"]_vars
  /\ [](lpc = "l_done" =>
          /\ Len(lResults) = lN
          /\ \A k \in 1..lN : lResults[k].file = k)

C31_Witness ==
  /\ lpc = "l_done"
  /\ lN = 2
  /\ lResults[1] = Outcome(1, "error", "No PDF available")
  /\ lResults[2].status = "included"
  /\ lStats = [included |-> 1, skipped |-> 0, errors |-> 1]

(***************************************************************************)
(* parseAmount: strings are sequences of characters; replace, parseFloat  *)
(* and isNaN are computed on them.  The tokens are those the patterns of  *)
(* parseProbateText can capture, with '$' and blanks added.               *)
(***************************************************************************)
MaxTokenLen == 4            \* length of the tokens tried

Digits == {"0", "1", "5"}
AmountChars == Digits \cup {",", ".", "$", " "}

\* the tokens of the spec's examples, and NONE in other cases and shapes
ExampleTokens ==
  { << "N", "O", "N", "E" >>, << "n", "o", "n", "e" >>, << "N", "o", "n", "e" >>,
    << "N", "O" >>, << " ", "N", "O", "N", "E" >>,
    << "1", ",", "2", "5", "0", ",", "0", "0", "0", ".", "0", "0" >>,
    << "2", "5", "0", ",", "0", "0", "0", ".", "0", "0", "." >> }

Tokens ==
  UNION {[1..n -> AmountChars] : n \in 0..MaxTokenLen} \cup ExampleTokens

\* String.prototype.toUpperCase on the letters that occur
ToUpperCase(str) ==
  [i \in 1..Len(str) |->
     CASE str[i] = "n" -> "N"
       [] str[i] = "o" -> "O"
       [] str[i] = "e" -> "E"
       [] OTHER -> str[i]]

DigitValue(c) ==
  CASE c = "0" -> 0 [] c = "1" -> 1 [] c = "2" -> 2 [] c = "3" -> 3
    [] c = "4" -> 4 [] c = "5" -> 5 [] c = "6" -> 6 [] c = "7" -> 7
    [] c = "8" -> 8 [] OTHER -> 9

IsDigit(c) == c \in {"0", "1", "2", "3", "4", "5", "6", "7", "8", "9"}

Cleaned_CommasOnly(str) == SelectSeq(str, LAMBDA c : c # ",")
\* str.replace(/[,$\s]/g, '')
Cleaned(str) == SelectSeq(str, LAMBDA c : c \notin {",", "$", " "})

\* the number of digits of s from position from on
DigitRun(s, from) ==
  CHOOSE n \in 0..Len(s) :
    /\ from + n - 1 <= Len(s)
    /\ \A i \in from..(from + n - 1) : IsDigit(s[i])
    /\ from + n > Len(s) \/ ~IsDigit(s[from + n])

RECURSIVE DigitsToInt(_, _, _, _)
\* the value of the n digits of s from position from on, after acc
DigitsToInt(s, from, n, acc) ==
  IF n = 0 THEN acc
  ELSE DigitsToInt(s, from + 1, n - 1, 10 * acc + DigitValue(s[from]))

RECURSIVE Normal(_, _)
\* units / 10^scale without trailing zeros after the point
Normal(u, k) ==
  IF k > 0 /\ u % 10 = 0 THEN Normal(u \div 10, k - 1) ELSE Num(u, k)

\* parseFloat on a string without sign, exponent or letters of Infinity: the
\* longest prefix digits [. digits] with a digit in it, NaN if there is none
parseFloat(s) ==
  LET intN == DigitRun(s, 1)
      dot == intN < Len(s) /\ s[intN + 1] = "."
      fracN == IF dot THEN DigitRun(s, intN + 2) ELSE 0
  IN IF intN + fracN = 0
       THEN NaN
       ELSE Normal(DigitsToInt(s, intN + 2, fracN, DigitsToInt(s, 1, intN, 0)),
                   fracN)

\* parseAmount
parseAmount(str) ==
  IF str = << >> \/ ToUpperCase(str) = << "N", "O", "N", "E" >>
    THEN Num(0, 0)
    ELSE LET num == parseFloat(Cleaned(str))
         IN IF num.nan THEN Num(0, 0) ELSE num

AmountInit ==
  /\ RunIdle
  /\ BatchIdle
  /\ RetryIdle
  /\ FormIdle
  /\ DateIdle
  /\ SearchIdle
  /\ PdfIdle
  /\ LookIdle
  /\ ParseIdle
  /\ LogIdle
  /\ apc = "a_call"
  /\ aStr \in Tokens
  /\ aOut = NaN

notAmount == << runState, batchState, retryState, formState, dateState, searchState,
               pdfState, lookState, parseState, logState >>

\* parseAmount(str) is called and returns
AmountCall ==
  /\ apc = "a_call"
  /\ aOut' = parseAmount(aStr)
  /\ apc' = "a_done"
  /\ UNCHANGED << notAmount, aStr >>

SpecAmount == AmountInit /\ [][AmountCall]_vars

\* a token without thousands separators, currency symbols and whitespace
Stripped(str) ==
  [i \in 1..Cardinality({j \in 1..Len(str) : str[j] \notin {",", "$", " "}}) |->
     str[CHOOSE j \in 1..Len(str) :
           /\ str[j] \notin {",", "$", " "}
           /\ Cardinality({k \in 1..j : str[k] \notin {",", "$", " "}}) = i]]

\* t is a decimal numeral: digits with at most one point and a digit
IsNumeral(t) ==
  /\ \A i \in 1..Len(t) : IsDigit(t[i]) \/ t[i] = "."
  /\ Cardinality({i \in 1..Len(t) : t[i] = "."}) <= 1
  /\ \E i \in 1..Len(t) : IsDigit(t[i])

RECURSIVE PowerOfTen(_)
PowerOfTen(k) == IF k = 0 THEN 1 ELSE 10 * PowerOfTen(k - 1)

RECURSIVE NumeralUnits(_)
\* the digits of the numeral t read as one integer, the point left out
NumeralUnits(t) ==
  IF t = << >> THEN 0
  ELSE IF t[Len(t)] = "." THEN NumeralUnits(SubSeq(t, 1, Len(t) - 1))
  ELSE DigitValue(t[Len(t)]) + 10 * NumeralUnits(SubSeq(t, 1, Len(t) - 1))

\* digits of the numeral t after its point
NumeralScale(t) ==
  IF \E i \in 1..Len(t) : t[i] = "."
    THEN Len(t) - (CHOOSE i \in 1..Len(t) : t[i] = ".")
    ELSE 0

\* out is the value of the numeral t
IsValueOf(out, t) ==
  /\ ~out.nan
  /\ out.units >= 0
  /\ out.units * PowerOfTen(NumeralScale(t)) = NumeralUnits(t) * PowerOfTen(out.scale)
  /\ out.scale > 0 => out.units % 10 # 0

IsNone(str) ==
  /\ Len(str) = 4
  /\ str[1] \in {"N", "n"} /\ str[2] \in {"O", "o"}
  /\ str[3] \in {"N", "n"} /\ str[4] \in {"E", "e"}

\* C33 as stated: the call returns; the result is 0 for NONE, for the empty
\* string and for every token whose stripped form is not a numeral, and the
\* non-negative value of the stripped form otherwise.
C33_NonNumeralGivesZero ==
  apc = "a_done" =>
    IF IsNone(aStr) \/ aStr = << >> \/ ~IsNumeral(Stripped(aStr))
      THEN aOut = Num(0, 0)
      ELSE IsValueOf(aOut, Stripped(aStr))

\* C33 amended: the call returns; the result is 0 for NONE, for the empty
\* string and for every token whose stripped form does not begin with a
\* numeral, and otherwise the non-negative value of the longest numeral the
\* stripped form begins with.
C33_LongestNumeralPrefix ==
  apc = "a_done" =>
    LET t == Stripped(aStr)
        P == {n \in 1..Len(t) : IsNumeral(SubSeq(t, 1, n))}
    IN IF IsNone(aStr) \/ aStr = << >> \/ P = {}
         THEN aOut = Num(0, 0)
         ELSE IsValueOf(aOut, SubSeq(t, 1, CHOOSE n \in P : \A q \in P : q <= n))

C33_Witness ==
  /\ apc = "a_done"
  /\ aStr = << "1", ",", "2", "5", "0", ",", "0", "0", "0", ".", "0", "0" >>
  /\ aOut = Num(1250000, 0)

(***************************************************************************)
(* parseProbateText, one step for each pattern it matches against the     *)
(* text, all inside its single try block, and the route's threshold       *)
(* filter on the record it returns.  What a pattern finds in the text is  *)
(* chosen when the step runs.                                             *)
(***************************************************************************)
\* the patterns, in the order of the code: decedentNameMatch, willOfMatch,
\* dodMatch, placeMatch, domicileMatch, altDomicile, petitionerMatch,
\* nameFieldMatch, execAddrMatch, valueRangeMatch, personalMatch,
\* improvedMatch, unimprovedMatch
Steps == 1..13

\* the field a step assigns (valueRangeMatch assigns estateValueLower too)
StepField(k) ==
  CASE k \in {1, 2} -> "decedentName"
    [] k = 3 -> "dateOfDeath"
    [] k = 4 -> "placeOfDeath"
    [] k \in {5, 6} -> "decedentAddress"
    [] k \in {7, 8} -> "executorName"
    [] k = 9 -> "executorAddress"
    [] k = 10 -> "estateValueUpper"
    [] k = 11 -> "personalProperty"
    [] k = 12 -> "improvedRealProperty"
    [] OTHER -> "unimprovedRealProperty"

\* !result.field: null or the empty string
Falsy(v) == v = Null \/ v = Some("")

\* the steps under if (!result.decedentName), if (!result.decedentAddress)
\* and if (!result.executorName)
Guarded(k) == k \in {2, 6, 8}

\* the tokens ([0-9,.]+) and ([0-9,.]+|NONE) can capture in the texts tried
RangeTokens ==
  { << "1", "0", "0", ",", "0", "0", "0" >>,
    << "1", "0", "0", ",", "0", "0", "1" >>,
    << "." >> }
ItemTokens ==
  { << "N", "O", "N", "E" >>, << "1", "0", "0", ",", "0", "0", "0" >> }

\* what a step assigns when its pattern matches: cleanName of a name that
\* starts with a letter, the trimmed date, cleanAddress of a capture that may
\* be blank (null), a join of parts that may all be blank (''), parseAmount
StepValues(k) ==
  CASE k \in {1, 2, 7, 8} -> {Some("JOHN DOE")}
    [] k = 3 -> {Some("01/02/2024")}
    [] k \in {4, 6} -> {Some("ALBANY"), Null}
    [] k \in {5, 9} -> {Some("1 MAIN ST, ALBANY"), Some("")}
    [] k = 10 -> {Some(parseAmount(t)) : t \in RangeTokens}
    [] OTHER -> {Some(parseAmount(t)) : t \in ItemTokens}

\* minEstateValue of the requests tried
MinValues == {0, 100000}

\* num > n for a number num and an integer n
NumGreater(num, n) == num.units > n * PowerOfTen(num.scale)

meetsValueThreshold_AtLeast(parsed, minValue) ==
  IF parsed.estateValueUpper = Null
    THEN TRUE
    ELSE NumGreater([parsed.estateValueUpper[1] EXCEPT !.units = @ + 1], minValue)
\* meetsValueThreshold
meetsValueThreshold(parsed, minValue) ==
  IF parsed.estateValueUpper = Null
    THEN TRUE
    ELSE NumGreater(parsed.estateValueUpper[1], minValue)

ParseInit ==
  /\ RunIdle
  /\ BatchIdle
  /\ RetryIdle
  /\ FormIdle
  /\ DateIdle
  /\ SearchIdle
  /\ PdfIdle
  /\ LookIdle
  /\ AmountIdle
  /\ LogIdle
  /\ tpc = "t_steps"
  /\ tk = 1
  /\ tRes = NewResult
  /\ tAnchor = FALSE
  /\ tRan = {}
  /\ tThrew = 0
  /\ tMin \in MinValues
  /\ tStatus = "none"

notParse == << runState, batchState, retryState, formState, dateState, searchState,
              pdfState, lookState, amountState, logState >>

\* a step under an if whose field is already set is not evaluated
TSkip ==
  /\ tpc = "t_steps"
  /\ tk \in Steps
  /\ Guarded(tk)
  /\ ~Falsy(tRes[StepField(tk)])
  /\ tk' = tk + 1
  /\ UNCHANGED << notParse, tpc, tRes, tAnchor, tRan, tThrew, tMin, tStatus >>

TNoMatch_AssignsBlank ==
  /\ tpc = "t_steps"
  /\ tk \in Steps
  /\ Guarded(tk) => Falsy(tRes[StepField(tk)])
  /\ tRan' = tRan \cup {tk}
  /\ tRes' = IF tk \in {3, 4} THEN [tRes EXCEPT ![StepField(tk)] = Some("")] ELSE tRes
  /\ tk' = tk + 1
  /\ UNCHANGED << notParse, tpc, tAnchor, tThrew, tMin, tStatus >>
\* text.match(pattern) returns null: the field is left as it is
TNoMatch ==
  /\ tpc = "t_steps"
  /\ tk \in Steps
  /\ Guarded(tk) => Falsy(tRes[StepField(tk)])
  /\ tRan' = tRan \cup {tk}
  /\ tk' = tk + 1
  /\ UNCHANGED << notParse, tpc, tRes, tAnchor, tThrew, tMin, tStatus >>

\* text.match(pattern) matches and the field is assigned
TMatch ==
  /\ tpc = "t_steps"
  /\ tk \in Steps
  /\ Guarded(tk) => Falsy(tRes[StepField(tk)])
  /\ tRan' = tRan \cup {tk}
  /\ tAnchor' = TRUE
  /\ \E v \in StepValues(tk) :
       tRes' = IF tk = 10
                 THEN [tRes EXCEPT
                         !.estateValueLower = Some(parseAmount(<< "5", "0", ",", "0", "0", "0" >>)),
                         !.estateValueUpper = v]
                 ELSE [tRes EXCEPT ![StepField(tk)] = v]
  /\ tk' = tk + 1
  /\ UNCHANGED << notParse, tpc, tThrew, tMin, tStatus >>

\* the step throws: catch (err) { result.parseErrors.push(err.message) }
TThrow ==
  /\ tpc = "t_steps"
  /\ tk \in Steps
  /\ Guarded(tk) => Falsy(tRes[StepField(tk)])
  /\ tRan' = tRan \cup {tk}
  /\ tAnchor' = TRUE
  /\ tThrew' = tk
  /\ tRes' = [tRes EXCEPT !.parseErrors = Append(@, "step failed")]
  /\ tpc' = "t_return"
  /\ UNCHANGED << notParse, tk, tMin, tStatus >>

\* the try block is over
TEnd ==
  /\ tpc = "t_steps"
  /\ tk \notin Steps
  /\ tpc' = "t_return"
  /\ UNCHANGED << notParse, tk, tRes, tAnchor, tRan, tThrew, tMin, tStatus >>

\* return result; the route applies meetsValueThreshold(parsed, minEstateValue)
TFilter ==
  /\ tpc = "t_return"
  /\ tStatus' = IF meetsValueThreshold(tRes, tMin) THEN "included" ELSE "skipped"
  /\ tpc' = "t_done"
  /\ UNCHANGED << notParse, tk, tRes, tAnchor, tRan, tThrew, tMin >>

ParseNext == TSkip \/ TNoMatch \/ TMatch \/ TThrow \/ TEnd \/ TFilter

SpecParse == ParseInit /\ [][ParseNext]_vars

\* the eleven data fields of a ParsedRecord
DataFields ==
  {"decedentName", "decedentAddress", "dateOfDeath", "placeOfDeath",
   "executorName", "executorAddress", "estateValueLower", "estateValueUpper",
   "personalProperty", "improvedRealProperty", "unimprovedRealProperty"}

\* C32: the spec's three examples; a parsed filing is included when its upper
\* value is null or strictly above minEstateValue, and skipped when it is
\* known and at or below it.
C32_StrictThreshold ==
  /\ meetsValueThreshold([NewResult EXCEPT !.estateValueUpper = Null], 100000)
  /\ ~meetsValueThreshold([NewResult EXCEPT !.estateValueUpper = Some(Num(100000, 0))],
                          100000)
  /\ meetsValueThreshold([NewResult EXCEPT !.estateValueUpper = Some(Num(100001, 0))],
                         100000)
  /\ tpc = "t_done" =>
       /\ tStatus \in {"included", "skipped"}
       /\ tStatus = "skipped" <=>
            /\ tRes.estateValueUpper # Null
            /\ tRes.estateValueUpper[1].units
                 <= tMin * PowerOfTen(tRes.estateValueUpper[1].scale)

C32_Witness ==
  /\ tpc = "t_done"
  /\ tMin = 100000
  /\ tRes.estateValueUpper = Some(Num(100000, 0))
  /\ tStatus = "skipped"

\* C34: a text in which no pattern finds its anchor gives the record with
\* the eleven data fields null and parseErrors empty; parseErrors holds an
\* entry only if a step threw; the steps are left only by the return.
C34_NoAnchorsAllNull ==
  /\ [](tpc \in {"t_return", "t_done"} /\ ~tAnchor =>
          /\ \A f \in DataFields : tRes[f] = Null
          /\ tRes.parseErrors = << >>)
  /\ [](tRes.parseErrors # << >> => tThrew \in Steps)
  /\ [][tpc = "t_steps" /\ tpc' # tpc => tpc' = "t_return"]_vars

C34_Witness ==
  /\ tpc = "t_done"
  /\ ~tAnchor
  /\ tRan = Steps
  /\ \A f \in DataFields : tRes[f] = Null
  /\ tRes.parseErrors = << >>

MaxLogged == 102            \* calls of logError in a run

MAX_ENTRIES == 100

Truncated_DropsNewest(log) ==
  IF Len(log) > MAX_ENTRIES THEN SubSeq(log, 2, Len(log)) ELSE log
\* if (errorLog.length > MAX_ENTRIES) errorLog.length = MAX_ENTRIES
Truncated(log) ==
  IF Len(log) > MAX_ENTRIES THEN SubSeq(log, 1, MAX_ENTRIES) ELSE log

LogInit ==
  /\ RunIdle
  /\ BatchIdle
  /\ RetryIdle
  /\ FormIdle
  /\ DateIdle
  /\ SearchIdle
  /\ PdfIdle
  /\ LookIdle
  /\ AmountIdle
  /\ ParseIdle
  /\ errorLog = << >>
  /\ nLogged = 0
  /\ gCopy = << >>
  /\ gHeld = FALSE
  /\ gAlias = FALSE
  /\ lastOp = "init"

notLog == << runState, batchState, retryState, formState, dateState, searchState,
            pdfState, lookState, amountState, parseState >>

\* the caller's next call: the array it held is let go
gDrop ==
  /\ gCopy' = << >>
  /\ gHeld' = FALSE
  /\ gAlias' = FALSE

\* logError: errorLog.unshift(entry) and the truncation
LogError ==
  /\ nLogged < MaxLogged
  /\ nLogged' = nLogged + 1
  /\ errorLog' = Truncated(<< nLogged + 1 >> \o errorLog)
  /\ lastOp' = "logError"
  /\ gDrop
  /\ UNCHANGED notLog

\* clearErrors: errorLog.length = 0
ClearErrors ==
  /\ errorLog' = << >>
  /\ lastOp' = "clearErrors"
  /\ gDrop
  /\ UNCHANGED << notLog, nLogged >>

\* getErrors: return [...errorLog]
GetErrors ==
  /\ gCopy' = errorLog
  /\ gHeld' = TRUE
  /\ gAlias' = FALSE
  /\ lastOp' = "getErrors"
  /\ UNCHANGED << notLog, errorLog, nLogged >>

\* the caller empties the array it was given; the log follows only if the
\* array is the log itself
CallerEmpties ==
  /\ gHeld
  /\ gCopy' = << >>
  /\ errorLog' = IF gAlias THEN << >> ELSE errorLog
  /\ lastOp' = "callerEmpties"
  /\ UNCHANGED << notLog, nLogged, gHeld, gAlias >>

LogNext == LogError \/ ClearErrors \/ GetErrors \/ CallerEmpties

SpecLog == LogInit /\ [][LogNext]_vars

\* C36: the log never holds more than 100 entries and is ordered newest
\* first; a logError at capacity drops the oldest entry and keeps the others
\* in order behind the new one; clearErrors leaves the log empty; getErrors
\* returns the log's entries without changing the log, and emptying the
\* returned array leaves the log as it is.
C36_BoundedNewestFirst ==
  /\ [](Len(errorLog) <= 100)
  /\ [](\A i, j \in 1..Len(errorLog) : i < j => errorLog[i] > errorLog[j])
  /\ [][nLogged' = nLogged + 1 =>
          /\ errorLog'[1] = nLogged'
          /\ IF Len(errorLog) = 100
               THEN /\ Len(errorLog') = 100
                    /\ \A i \in 1..99 : errorLog'[i + 1] = errorLog[i]
               ELSE /\ Len(errorLog') = Len(errorLog) + 1
                    /\ \A i \in 1..Len(errorLog) : errorLog'[i + 1] = errorLog[i]]_vars
  /\ [](lastOp = "clearErrors" => errorLog = << >>)
  /\ [](lastOp = "getErrors" => gCopy = errorLog)
  /\ [][lastOp' \in {"getErrors", "callerEmpties"} =>
          errorLog' = errorLog /\ nLogged' = nLogged]_vars

C36_Witness ==
  /\ lastOp = "logError"
  /\ nLogged = 101
  /\ Len(errorLog) = 100
  /\ errorLog[1] = 101
  /\ errorLog[100] = 2

(***************************************************************************)
(* The pagination loop of searchAndCollectFiles against a portal that may *)
(* answer a click on the next link with any results page, the same one    *)
(* included.  The awaits of the loop always settle (weak fairness).       *)
(***************************************************************************)
MaxRows == 3                \* rows a call collects before the pages tried hold none

\* the results pages the portal can answer with when the call holds n rows
PagesAfter(n) ==
  { pg \in [says : {{}}, rows : RowChoices \cup {<< >>}, parsed : BOOLEAN,
            endIdx : {0, 2}, total : {0, 2, 4}, link : BOOLEAN] :
      /\ [parsed |-> pg.parsed, endIdx |-> pg.endIdx, total |-> pg.total]
           \in SummaryChoices
      /\ n + Len(pg.rows) <= MaxRows }

\* the loop is entered with the first results page shown
PagingInit ==
  /\ RunIdle
  /\ BatchIdle
  /\ RetryIdle
  /\ FormIdle
  /\ DateIdle
  /\ PdfIdle
  /\ LateIdle
  /\ spc = "s_extract"
  /\ sN = 1
  /\ sc = 1
  /\ sAttempt = 1
  /\ sAll = << >>
  /\ sLocal = << >>
  /\ sShown \in PagesAfter(0)
  /\ sClass = "results"
  /\ sVisited = << >>
  /\ sClicks = 0
  /\ sSearched = << 1 >>
  /\ sErr = "none"
  /\ sResp = NoResp

pRest == << sClass, sVisited, sClicks, sResp >>

\* pageResults = await extractResultsFromPage(page); allFiles.push(...pageResults)
PExtract ==
  /\ spc = "s_extract"
  /\ \E o \in ExtractOutcomes :
       IF o = "ok"
         THEN /\ sLocal' = sLocal \o sShown.rows
              /\ spc' = "s_summary"
              /\ UNCHANGED sErr
         ELSE /\ sErr' = "page.evaluate failed"
              /\ spc' = "s_thrown"
              /\ UNCHANGED sLocal
  /\ UNCHANGED << notSearch, sLoop, sShown, pRest >>

\* the summary is matched; hasMorePages stays true only with endIdx < total
\* and a next link: otherwise the while loop ends and allFiles is returned
PSummary ==
  /\ spc = "s_summary"
  /\ spc' = IF HasMore(sShown) /\ sShown.link THEN "s_click" ELSE "s_returned"
  /\ UNCHANGED << notSearch, sLoop, sLocal, sShown, sErr, pRest >>

\* nextLink.click(), waitForLoadState, delay(1500): the portal's answer is shown
PNextClick ==
  /\ spc = "s_click"
  /\ \E o \in NextClickOutcomes :
       IF o = "ok"
         THEN /\ sShown' \in PagesAfter(Len(sLocal))
              /\ spc' = "s_extract"
              /\ UNCHANGED sErr
         ELSE /\ sErr' = "next click failed"
              /\ spc' = "s_thrown"
              /\ UNCHANGED sShown
  /\ UNCHANGED << notSearch, sLoop, sLocal, pRest >>

PagingNext == PExtract \/ PSummary \/ PNextClick

FairSpecPaging == PagingInit /\ [][PagingNext]_vars /\ WF_vars(PagingNext)

\* C37: every call of the pagination loop ends, by returning or by throwing.
C37_PaginationTerminates == <>(spc \in {"s_returned", "s_thrown"})

\* C38: every attempt of a chunk's search starts with no rows; a failed
\* attempt adds nothing to the files of the route; the files grow only when an
\* attempt returns, and then by the rows of the pages that attempt visited.
C38_OnlyTheSuccessfulAttemptCounts ==
  /\ [][spc = "s_nav" /\ spc' # spc => sLocal' = << >> /\ sVisited' = << >>]_vars
  /\ [][spc = "s_caught" => sAll' = sAll]_vars
  /\ [][sAll' # sAll => spc' = "s_delay" /\ sAll' = sAll \o Flatten(sVisited)]_vars
  /\ [](spc = "s_delay" /\ sc = 1 => sAll = Flatten(sVisited))

C38_Witness ==
  /\ spc = "s_delay"
  /\ sc = 1
  /\ sAttempt = 2
  /\ sSearched = << 1, 1 >>
  /\ sErr = "next click failed"
  /\ sAll = << Stub(1, "a") >>

\* the files of the batches the loop has gone through
FilesBefore(i) ==
  IF i > Len(Batches) THEN totalCount ELSE (i - 1) * BATCH_SIZE

\* C39: in every state of a run the processed count is the sum of the
\* included, skipped and error counts and is at most the number of files
\* found; at the loop's head it is the number of files of the batches gone
\* through, failed batches included; when the phase is 'complete' it equals
\* the number of files found.
C39_ProcessedIsTheSum ==
  /\ runningStats.processed
       = runningStats.included + runningStats.skipped + runningStats.errors
  /\ runningStats.processed <= totalCount
  /\ fpc = "f_loop" => runningStats.processed = FilesBefore(fi)
  /\ phase = "complete" => runningStats.processed = totalCount

C39_Witness ==
  /\ phase = "complete"
  /\ totalCount = 3
  /\ runningStats = [processed |-> 3, included |-> 1, skipped |-> 0, errors |-> 2]
  /\ Len(allResults) = 1

\* C40: a run the user cancelled has issued no batch request after the
\* cancellation and, once over, is in phase 'error'. The code breaks this:
\* a cancellation that arrives while the body of the last batch's response
\* is read is caught as an invalid body, the batch is skipped, the loop is
\* over and the phase becomes 'complete'.
C40_CancelEndsInError ==
  /\ ~sentAfterAbort
  /\ aborted /\ fpc = "f_done" => phase = "error"

====
